---- MODULE Spec2Model ----
(***************************************************************************)
(* Task-execution engine of organism_ai: the planner's escalation ladder,  *)
(* the plan validator, the safety gate, the evaluator and the step loop of *)
(* CoreLoop.run with its evaluate-retry state machine.                     *)
(*                                                                         *)
(* Text is modelled as a sequence of lexical tokens (a Python str becomes  *)
(* a Seq of token strings); `pattern in text` is a contiguous-subsequence  *)
(* test, concatenation is \o, and a slice text[:n] is the n-token prefix.  *)
(***************************************************************************)
EXTENDS Integers, Sequences, FiniteSets, TLC

\* ------------------------------------------------------------------ bounds
\* Longest chain of code steps a planning completion returns.
MaxPlanLen == 2

\* ------------------------------------------------------- program constants
MAX_RETRIES == 3
MAX_PLAN_STEPS == 5
ERROR_HINT_CHARS == 300
CONTEXT_OUTPUT_CHARS == 800

\* ------------------------------------------------------------------- text
\* text[:n]
Prefix(text, n) == SubSeq(text, 1, IF Len(text) < n THEN Len(text) ELSE n)

\* pattern in text
Contains(text, pattern) ==
    \E i \in 1..(Len(text) - Len(pattern) + 1) :
        SubSeq(text, i, i + Len(pattern) - 1) = pattern

RECURSIVE Flatten(_)
Flatten(seqs) ==
    IF seqs = <<>> THEN <<>> ELSE Head(seqs) \o Flatten(Tail(seqs))

\* The tokens the regex \{\{step_(\d+)_output\}\} matches, with int(group 1).
PlaceholderId ==
    [tok \in {"{{step_1_output}}", "{{step_2_output}}", "{{step_3_output}}"} |->
        CASE tok = "{{step_1_output}}" -> 1
          [] tok = "{{step_2_output}}" -> 2
          [] tok = "{{step_3_output}}" -> 3]

IsPlaceholder(tok) == tok \in DOMAIN PlaceholderId

\* step_outputs.get(n, ""): step_outputs is a set of <<id, text>> pairs with
\* at most one pair per id (a dict).
OutputsGet(outs, n) ==
    IF \E p \in outs : p[1] = n
    THEN (CHOOSE p \in outs : p[1] = n)[2]
    ELSE <<>>

\* step_outputs[id] = text
OutputsPut(outs, n, text) == {p \in outs : p[1] # n} \cup {<<n, text>>}

\* Mutant: a reference to a step without a recorded output is left in place.
ResolveTextKeep(v, outs) ==
    Flatten([i \in 1..Len(v) |->
        IF IsPlaceholder(v[i]) /\ \E p \in outs : p[1] = PlaceholderId[v[i]]
        THEN OutputsGet(outs, PlaceholderId[v[i]])
        ELSE <<v[i]>>])

\* re.sub(r"\{\{step_(\d+)_output\}\}", lambda m: step_outputs.get(...), v):
\* every match is replaced once, the replacement text is not rescanned.
ResolveText(v, outs) ==
    Flatten([i \in 1..Len(v) |->
        IF IsPlaceholder(v[i]) THEN OutputsGet(outs, PlaceholderId[v[i]])
        ELSE <<v[i]>>])

\* resolved_input: every (string) value of step.input resolved.
ResolveInput(input, outs) ==
    [k \in DOMAIN input |-> ResolveText(input[k], outs)]

\* ------------------------------------------------------------ safety gate
\* Operations that are never allowed (a two-token pattern stands for a
\* signature that can be assembled from adjacent pieces of text).
BLACKLIST ==
    << <<"os.system">>, <<"subprocess">>, <<"os.environ">>, <<"eval(">>,
       <<"exec(", "compile(">> >>

\* Operations that require user confirmation.
YELLOWLIST == << <<"requests.post">>, <<"smtplib">> >>

\* Mutant: the caution list is consulted before the deny list.
validate_code_caution_first(code) ==
    IF \E i \in 1..Len(YELLOWLIST) : Contains(code, YELLOWLIST[i])
    THEN LET i == CHOOSE j \in 1..Len(YELLOWLIST) :
                      /\ Contains(code, YELLOWLIST[j])
                      /\ \A h \in 1..(j - 1) : ~Contains(code, YELLOWLIST[h])
         IN [allowed |-> TRUE,
             reason |-> <<"Sensitive operation detected:">> \o YELLOWLIST[i],
             requires_confirmation |-> TRUE]
    ELSE IF \E i \in 1..Len(BLACKLIST) : Contains(code, BLACKLIST[i])
    THEN LET i == CHOOSE j \in 1..Len(BLACKLIST) :
                      /\ Contains(code, BLACKLIST[j])
                      /\ \A h \in 1..(j - 1) : ~Contains(code, BLACKLIST[h])
         IN [allowed |-> FALSE,
             reason |-> <<"Blocked pattern detected:">> \o BLACKLIST[i],
             requires_confirmation |-> FALSE]
    ELSE [allowed |-> TRUE, reason |-> <<>>, requires_confirmation |-> FALSE]

validate_code(code) ==
    IF \E i \in 1..Len(BLACKLIST) : Contains(code, BLACKLIST[i])
    THEN LET i == CHOOSE j \in 1..Len(BLACKLIST) :
                      /\ Contains(code, BLACKLIST[j])
                      /\ \A h \in 1..(j - 1) : ~Contains(code, BLACKLIST[h])
         IN [allowed |-> FALSE,
             reason |-> <<"Blocked pattern detected:">> \o BLACKLIST[i],
             requires_confirmation |-> FALSE]
    ELSE IF \E i \in 1..Len(YELLOWLIST) : Contains(code, YELLOWLIST[i])
    THEN LET i == CHOOSE j \in 1..Len(YELLOWLIST) :
                      /\ Contains(code, YELLOWLIST[j])
                      /\ \A h \in 1..(j - 1) : ~Contains(code, YELLOWLIST[h])
         IN [allowed |-> TRUE,
             reason |-> <<"Sensitive operation detected:">> \o YELLOWLIST[i],
             requires_confirmation |-> TRUE]
    ELSE [allowed |-> TRUE, reason |-> <<>>, requires_confirmation |-> FALSE]

\* The substrings validate_domains looks for in a domain.
PRIVATE_MARKS == <<"localhost", "127.0.0.1", "169.254", "10.", "192.168.">>

\* A list of domains is written as one text, the domains separated by the
\* token ",": the domains of the list, in order.
RECURSIVE SplitDomains(_)
SplitDomains(text) ==
    IF text = <<>> THEN <<>>
    ELSE IF \E i \in 1..Len(text) : text[i] = ","
    THEN LET i == CHOOSE j \in 1..Len(text) :
                      text[j] = "," /\ \A h \in 1..(j - 1) : text[h] # ","
         IN <<SubSeq(text, 1, i - 1)>> \o SplitDomains(SubSeq(text, i + 1, Len(text)))
    ELSE <<text>>

\* any(s in d for s in [...])
Suspicious(d) == \E i \in 1..Len(PRIVATE_MARKS) : Contains(d, <<PRIVATE_MARKS[i]>>)

validate_domains(domains) ==
    LET suspicious == SelectSeq(domains, Suspicious)
    IN IF suspicious # <<>>
       THEN [allowed |-> FALSE,
             reason |-> <<"Internal network access not allowed:">> \o Flatten(suspicious),
             requires_confirmation |-> FALSE]
       ELSE [allowed |-> TRUE, reason |-> <<>>, requires_confirmation |-> FALSE]

\* ------------------------------------------------------------------ tools
\* input_schema["required"] of the registered tool classes.
ToolRequired(tool) ==
    CASE tool = "code_executor" -> {"code"}
      [] tool = "web_search" -> {"query"}
      [] tool = "web_fetch" -> {"url"}
      [] tool = "text_writer" -> {"prompt", "filename"}
      [] tool = "pptx_creator" -> {"filename", "slides"}
      [] tool = "file_manager" -> {"action"}
      [] tool = "telegram_sender" -> {"chat_id", "text"}
      [] OTHER -> {}

\* ---------------------------------------------------------- plan validator
NoError == [kind |-> "none", step |-> 0, dep |-> 0]

StepIds(steps) == {steps[i].id : i \in 1..Len(steps)}

\* The key _validate_plan looks for in the input of a step of that tool.
ValidatorKey(tool) ==
    CASE tool = "code_executor" -> {"code"}
      [] tool = "web_search" -> {"query"}
      [] tool = "web_fetch" -> {"url"}
      [] tool = "text_writer" -> {"prompt"}
      [] tool = "pptx_creator" -> {"topic"}
      [] OTHER -> {}

\* Mutant: `dep > step.id`, a step may depend on itself.
DepErrorSelfAllowed(step, ids) ==
    IF \E j \in 1..Len(step.depends_on) :
           step.depends_on[j] \notin ids \/ step.depends_on[j] > step.id
    THEN LET j == CHOOSE x \in 1..Len(step.depends_on) :
                      /\ (step.depends_on[x] \notin ids \/ step.depends_on[x] > step.id)
                      /\ \A h \in 1..(x - 1) :
                             step.depends_on[h] \in ids /\ step.depends_on[h] <= step.id
             dep == step.depends_on[j]
         IN IF dep \notin ids
            THEN [kind |-> "missing_dep", step |-> step.id, dep |-> dep]
            ELSE [kind |-> "circular_dep", step |-> step.id, dep |-> dep]
    ELSE NoError

\* The first violating dependency of a step, in the order of the inner loop;
\* depends_on is a list, modelled as a sequence.
DepError(step, ids) ==
    IF \E j \in 1..Len(step.depends_on) :
           step.depends_on[j] \notin ids \/ step.depends_on[j] >= step.id
    THEN LET j == CHOOSE x \in 1..Len(step.depends_on) :
                      /\ (step.depends_on[x] \notin ids \/ step.depends_on[x] >= step.id)
                      /\ \A h \in 1..(x - 1) :
                             step.depends_on[h] \in ids /\ step.depends_on[h] < step.id
             dep == step.depends_on[j]
         IN IF dep \notin ids
            THEN [kind |-> "missing_dep", step |-> step.id, dep |-> dep]
            ELSE [kind |-> "circular_dep", step |-> step.id, dep |-> dep]
    ELSE NoError

\* The body of `for step in steps` for one step.
StepError(step, available_tools, ids) ==
    IF step.tool \notin available_tools
    THEN [kind |-> "tool_not_found", step |-> step.id, dep |-> 0]
    ELSE IF ~(ValidatorKey(step.tool) \subseteq DOMAIN step.input)
    THEN [kind |-> "missing_key", step |-> step.id, dep |-> 0]
    ELSE DepError(step, ids)

\* Mutant: each check is made for every step before the next check is made
\* for any step.
validate_plan_by_check(steps, available_tools) ==
    LET ids == StepIds(steps)
        NoTool(i) == steps[i].tool \notin available_tools
        NoKey(i) == ~(ValidatorKey(steps[i].tool) \subseteq DOMAIN steps[i].input)
        BadDeps(i) == DepError(steps[i], ids) # NoError
        First(P(_)) == CHOOSE x \in 1..Len(steps) : P(x) /\ \A h \in 1..(x - 1) : ~P(h)
    IN IF steps = <<>> THEN [kind |-> "empty", step |-> 0, dep |-> 0]
       ELSE IF Len(steps) > MAX_PLAN_STEPS THEN [kind |-> "too_long", step |-> 0, dep |-> 0]
       ELSE IF \E i \in 1..Len(steps) : NoTool(i)
       THEN [kind |-> "tool_not_found", step |-> steps[First(NoTool)].id, dep |-> 0]
       ELSE IF \E i \in 1..Len(steps) : NoKey(i)
       THEN [kind |-> "missing_key", step |-> steps[First(NoKey)].id, dep |-> 0]
       ELSE IF \E i \in 1..Len(steps) : BadDeps(i)
       THEN DepError(steps[First(BadDeps)], ids)
       ELSE NoError

validate_plan(steps, available_tools) ==
    IF steps = <<>> THEN [kind |-> "empty", step |-> 0, dep |-> 0]
    ELSE IF Len(steps) > MAX_PLAN_STEPS THEN [kind |-> "too_long", step |-> 0, dep |-> 0]
    ELSE IF \E i \in 1..Len(steps) :
                StepError(steps[i], available_tools, StepIds(steps)) # NoError
    THEN LET i == CHOOSE x \in 1..Len(steps) :
                      /\ StepError(steps[x], available_tools, StepIds(steps)) # NoError
                      /\ \A h \in 1..(x - 1) :
                             StepError(steps[h], available_tools, StepIds(steps)) = NoError
         IN StepError(steps[i], available_tools, StepIds(steps))
    ELSE NoError

\* ---------------------------------------------------------------- planner
\* SPECIALIZED_PROMPTS keys.
TaskTypes == {"writing", "code", "data", "research", "presentation", "mixed"}

\* What a classifier completion can come back as: a JSON object with a type
\* of the closed set, one with another type, text without an object, or a
\* failed call.
ClassifierResponses ==
    {[kind |-> "json", type |-> "code"], [kind |-> "json", type |-> "writing"],
     [kind |-> "json", type |-> "poetry"], [kind |-> "text", type |-> ""],
     [kind |-> "raise", type |-> ""]}

\* Mutant: the type of a decoded object is taken as it is.
classifyAnyType(response) ==
    IF response.kind = "json"
    THEN response.type
    ELSE "mixed"

\* _classify: every failure ends in 'mixed'.
classify(response) ==
    IF response.kind = "json" /\ response.type \in TaskTypes
    THEN response.type
    ELSE "mixed"

\* One decoded array item -> PlanStep, with the defaults of _parse_steps;
\* i is the enumerate index (0-based).
ParseItem(item, i) ==
    [id |-> IF "id" \in DOMAIN item THEN item.id ELSE i + 1,
     tool |-> item.tool,
     description |-> IF "description" \in DOMAIN item
                     THEN item.description ELSE item.tool,
     input |-> IF "input" \in DOMAIN item THEN item.input ELSE <<>>,
     depends_on |-> IF "depends_on" \in DOMAIN item THEN item.depends_on ELSE <<>>]

\* _parse_steps on a completion: json.loads raises on text that holds no
\* array (JSONDecodeError), item['tool'] raises on an item without a tool
\* (KeyError); both are the parse failure the callers catch.
ParseFails(response) ==
    \/ response.kind # "array"
    \/ \E i \in 1..Len(response.items) : "tool" \notin DOMAIN response.items[i]

parse_steps(response) ==
    [i \in 1..Len(response.items) |-> ParseItem(response.items[i], i - 1)]

\* -------------------------------------------------------------- evaluator
\* Quality scores are in hundredths (0.8 is 80).
Min(a, b) == IF a < b THEN a ELSE b
Max(a, b) == IF a > b THEN a ELSE b

ExitText(code) ==
    CASE code = -1 -> "-1" [] code = 0 -> "0" [] code = 1 -> "1" [] OTHER -> "n"

\* Mutant: only the hard failure is decided without the completion service.
FastPathHardOnly(result) ==
    IF result.exit_code = -1
    THEN [decided |-> TRUE,
          eval |-> [success |-> FALSE, reason |-> result.error,
                    retry_hint |-> <<"Fix the code to avoid timeout or system errors.">>,
                    quality_score |-> 0]]
    ELSE [decided |-> FALSE,
          eval |-> [success |-> FALSE, reason |-> <<>>, retry_hint |-> <<>>,
                    quality_score |-> 0]]

\* The deterministic branch of Evaluator.evaluate: decided = FALSE means the
\* completion service is asked.
FastPath(result) ==
    IF result.exit_code = -1
    THEN [decided |-> TRUE,
          eval |-> [success |-> FALSE, reason |-> result.error,
                    retry_hint |-> <<"Fix the code to avoid timeout or system errors.">>,
                    quality_score |-> 0]]
    ELSE IF result.exit_code # 0 /\ result.error # <<>>
    THEN [decided |-> TRUE,
          eval |-> [success |-> FALSE,
                    reason |-> <<"Code exited with code", ExitText(result.exit_code)>>,
                    retry_hint |-> <<"Fix this error:">> \o Prefix(result.error, ERROR_HINT_CHARS),
                    quality_score |-> 10]]
    ELSE [decided |-> FALSE,
          eval |-> [success |-> FALSE, reason |-> <<>>, retry_hint |-> <<>>,
                    quality_score |-> 0]]

\* Mutant: the decoded quality is taken as returned.
ParseJudgementUnclamped(response) ==
    IF response.kind = "json"
    THEN [success |-> response.success,
          reason |-> response.reason,
          retry_hint |-> response.retry_hint,
          quality_score |-> response.quality_score]
    ELSE [success |-> response.marker,
          reason |-> response.reason,
          retry_hint |-> IF response.marker THEN <<>>
                         ELSE <<"Review the output and fix the code.">>,
          quality_score |-> IF response.marker THEN 80 ELSE 20]

\* Evaluator._parse on the judged completion: a decoded object, or the
\* lexical fallback on the raw text.
ParseJudgement(response) ==
    IF response.kind = "json"
    THEN [success |-> response.success,
          reason |-> response.reason,
          retry_hint |-> response.retry_hint,
          quality_score |-> Max(0, Min(100, response.quality_score))]
    ELSE [success |-> response.marker,
          reason |-> response.reason,
          retry_hint |-> IF response.marker THEN <<>>
                         ELSE <<"Review the output and fix the code.">>,
          quality_score |-> IF response.marker THEN 80 ELSE 20]

\* Mutant: an attempt whose evaluation raised counts as failed.
EvaluatorUnavailableFails(result) ==
    [success |-> FALSE, reason |-> <<"Evaluator unavailable">>,
     retry_hint |-> <<>>, quality_score |-> 0]

\* except branch of _execute_step around evaluate: exit status alone.
EvaluatorUnavailable(result) ==
    [success |-> result.exit_code = 0, reason |-> <<"Evaluator unavailable">>,
     retry_hint |-> <<>>, quality_score |-> 0]

\* What the judged completion can come back as.
JudgeResponses ==
    {[kind |-> "json", success |-> TRUE, reason |-> <<"ok">>, retry_hint |-> <<>>,
      quality_score |-> 150, marker |-> FALSE],
     [kind |-> "json", success |-> FALSE, reason |-> <<"wrong">>,
      retry_hint |-> <<"use", "eval(">>, quality_score |-> -20, marker |-> FALSE],
     [kind |-> "text", success |-> FALSE, reason |-> <<"success: true">>,
      retry_hint |-> <<>>, quality_score |-> 0, marker |-> TRUE],
     [kind |-> "text", success |-> FALSE, reason |-> <<"no idea">>,
      retry_hint |-> <<>>, quality_score |-> 0, marker |-> FALSE],
     [kind |-> "raise", success |-> FALSE, reason |-> <<>>,
      retry_hint |-> <<>>, quality_score |-> 0, marker |-> FALSE]}

\* What tool.execute can come back as (kind "raise": an unexpected fault).
ToolReturns ==
    {[kind |-> "result", output |-> <<"300">>, error |-> <<>>, exit_code |-> 0],
     [kind |-> "result", output |-> <<"compile(", "{{step_2_output}}">>, error |-> <<>>,
      exit_code |-> 0],
     [kind |-> "result", output |-> <<"300">>, error |-> <<>>, exit_code |-> 1],
     [kind |-> "result", output |-> <<>>,
      error |-> <<"ModuleNotFoundError:", "subprocess">>, exit_code |-> 1],
     [kind |-> "result", output |-> <<>>, error |-> <<"Timeout">>, exit_code |-> -1],
     [kind |-> "raise", output |-> <<>>, error |-> <<"RuntimeError">>, exit_code |-> 0]}

\* f"# Previous failed: {hint}\n{code}"
WithHint(hint, code) == <<"# Previous failed:">> \o hint \o <<"\n">> \o code

\* Mutant: the hint is written into the input of any tool.
NextStepInputAnyTool(step_input, tool, eval) ==
    IF eval.retry_hint # <<>>
    THEN [k \in DOMAIN step_input \cup {"code"} |->
             IF k = "code"
             THEN WithHint(eval.retry_hint,
                           IF "code" \in DOMAIN step_input THEN step_input["code"] ELSE <<>>)
             ELSE step_input[k]]
    ELSE step_input

\* step_input after a failed attempt (line 377-378): only a code_executor
\* step with a non-empty hint is rewritten.
NextStepInput(step_input, tool, eval) ==
    IF eval.retry_hint # <<>> /\ tool = "code_executor"
    THEN [k \in DOMAIN step_input \cup {"code"} |->
             IF k = "code"
             THEN WithHint(eval.retry_hint,
                           IF "code" \in DOMAIN step_input THEN step_input["code"] ELSE <<>>)
             ELSE step_input[k]]
    ELSE step_input

\* ------------------------------------------------------------------ state
VARIABLES
    registry,          \* names registered in the ToolRegistry
    memory,            \* "none" (self.memory is None), "ok" or "faulty" (its calls raise)
    logger,            \* "ok", or "faulty" (an append to the log file may raise)
    pc,                \* where CoreLoop.run is: the await in flight, or "done"
    task_type,         \* Planner.plan's local task_type
    use_react,         \* Planner.plan's local use_react
    plan_attempt,      \* loop index of _specialized_plan / _fast_plan
    steps,             \* run's local steps
    validation_error,  \* run's local validation_error
    idx,               \* position (1-based) of `for step in steps`
    step_outputs,      \* dict step id -> output text
    last_output,
    tools_used,
    step_logs,
    checked_code,      \* _execute_step's local code: what the safety gate looked at
    step_input,        \* _execute_step's local step_input
    attempt,           \* _execute_step's loop variable
    result,            \* the ToolResult being evaluated
    memory_hits,
    memory_saves,      \* records passed to memory.on_task_end that were stored
    task_result,       \* the TaskResult run returned
    invoked,           \* history: plan position -> tool.execute calls made (0: fast path)
    evaluated,         \* history: plan position -> evaluator.evaluate calls made
    inflight,          \* history: tool.execute calls awaiting their result
    events,            \* the events TaskLogger has appended to the log, in order
    eval_result,       \* the EvalResult Evaluator.evaluate returned last
    eval_count,        \* evaluations of the ToolResult at hand so far
    delegation,        \* Orchestrator.run's local delegation (decoded routing array)
    d_idx,             \* position (1-based) of `for d in delegation`
    agent_task,        \* Orchestrator.run's local agent_task of the record at d_idx
    agent_results,     \* Orchestrator.run's local agent_results
    context,           \* Orchestrator.run's local context
    orch_result,       \* the OrchestratorResult Orchestrator.run returned
    verbose,           \* Orchestrator.run's argument verbose
    route_calls,       \* history: routing completions requested
    agent_runs,        \* history: position in delegation -> agent.run calls made
    parked,            \* the frame of a second run suspended at an await (or not started)
    current            \* which of two runs the variables above belong to

config_vars == <<registry, memory, logger>>
planner_vars == <<task_type, use_react, plan_attempt, steps, validation_error>>
step_vars == <<checked_code, step_input, attempt, result>>
loop_vars == <<idx, step_outputs, last_output, tools_used, step_logs>>
hist_vars == <<invoked, evaluated, inflight, events>>
pair_vars == <<parked, current>>
eval_vars == <<eval_result, eval_count>>
orch_vars == <<delegation, d_idx, agent_task, agent_results, context, orch_result,
               verbose, route_calls, agent_runs>>
vars == <<registry, memory, logger, pc, task_type, use_react, plan_attempt, steps,
          validation_error, idx, step_outputs, last_output, tools_used,
          step_logs, checked_code, step_input, attempt, result, memory_hits,
          memory_saves, task_result, invoked, evaluated, inflight, events,
          eval_result, eval_count, delegation, d_idx, agent_task, agent_results,
          context, orch_result, verbose, route_calls, agent_runs, parked, current>>

\* ----------------------------------------------------------------- inputs
\* build_registry of main.py with both optional tools, and the same with the
\* text_writer tool registered as well.
MainRegistry ==
    {"code_executor", "pptx_creator", "web_fetch", "file_manager", "web_search",
     "telegram_sender"}

Registries == {MainRegistry, MainRegistry \cup {"text_writer"}}

MemoryModes == {"none"}

\* Items a planning completion's array can hold (decoded JSON objects). The
\* chaining items: a code step, and a code step without an id (it gets its
\* position) that reads step 1.
ChainItems ==
    {[id |-> 1, tool |-> "code_executor", description |-> "calculate",
      input |-> [code |-> <<"print">>], depends_on |-> <<>>],
     [tool |-> "code_executor",
      input |-> [code |-> <<"exec(", "{{step_1_output}}">>], depends_on |-> <<1>>]}

\* All items: the chaining items; a file step without the 'action' its tool
\* declares as required, reading steps 1 and 3; a code step the safety gate
\* denies; an item without a tool.
RawItems ==
    ChainItems \cup
    {[id |-> 2, tool |-> "file_manager",
      input |-> [path |-> <<"{{step_1_output}}", "and", "{{step_3_output}}">>]],
     [id |-> 1, tool |-> "code_executor",
      input |-> [code |-> <<"os.system">>], depends_on |-> <<>>],
     [id |-> 1, description |-> "no tool named"]}

RECURSIVE SeqsUpTo(_, _)
SeqsUpTo(S, n) ==
    IF n = 0 THEN {<<>>}
    ELSE LET shorter == SeqsUpTo(S, n - 1)
         IN shorter \cup {Append(q, x) : q \in {r \in shorter : Len(r) = n - 1}, x \in S}

\* An array with one item more than MAX_PLAN_STEPS.
LongItems ==
    [i \in 1..(MAX_PLAN_STEPS + 1) |->
        [tool |-> "web_search", input |-> [query |-> <<"q">>]]]

\* The arrays a planning completion returns: every array of at most two
\* items, the longer chains of code steps up to MaxPlanLen items, and the
\* array that is too long.
PlanArrays ==
    SeqsUpTo(RawItems, 2)
    \cup {q \in SeqsUpTo(ChainItems, MaxPlanLen) : Len(q) > 2}
    \cup {LongItems}

\* What a planning completion can come back as: an array of items, text
\* that holds no array, or a failed call.
PlanResponses ==
    {[kind |-> "array", items |-> q] : q \in PlanArrays}
    \cup {[kind |-> "text", items |-> <<>>], [kind |-> "raise", items |-> <<>>]}

\* ------------------------------------------------------------ run helpers
IdText(n) ==
    CASE n = 0 -> "0" [] n = 1 -> "1" [] n = 2 -> "2" [] n = 3 -> "3"
      [] n = 4 -> "4" [] n = 5 -> "5" [] n = 6 -> "6" [] OTHER -> "n"

NoResult == [kind |-> "none", output |-> <<>>, error |-> <<>>, exit_code |-> 0]

NoTaskResult ==
    [returned |-> FALSE, success |-> FALSE, output |-> <<>>, steps |-> <<>>,
     error |-> <<>>, quality_score |-> 0]

\* Mutant: the attempt is recorded as a 0-based loop index.
StepLogZeroBased(step, output, error, success, attempts, quality) ==
    [step_id |-> step.id, tool |-> step.tool, output |-> output, error |-> error,
     success |-> success, attempts |-> attempts - 1, quality_score |-> quality]

\* StepLog(...) as _execute_step builds it.
StepLog(step, output, error, success, attempts, quality) ==
    [step_id |-> step.id, tool |-> step.tool, output |-> output, error |-> error,
     success |-> success, attempts |-> attempts, quality_score |-> quality]

\* input.get("code", "")
CodeOf(input) == IF "code" \in DOMAIN input THEN input["code"] ELSE <<>>

\* History counters: f[p] if counted, else 0; and f with p counted once more.
Count(f, p) == IF p \in DOMAIN f THEN f[p] ELSE 0
Counted(f, p) == [q \in DOMAIN f \cup {p} |-> IF q = p THEN Count(f, p) + 1 ELSE f[q]]

RECURSIVE SumQuality(_)
SumQuality(logs) ==
    IF logs = <<>> THEN 0
    ELSE (IF Head(logs).success THEN Head(logs).quality_score ELSE 0) + SumQuality(Tail(logs))

\* avg_quality (line 297), in hundredths, rounded down.
AvgQuality(logs) ==
    SumQuality(logs) \div Max(Cardinality({i \in 1..Len(logs) : logs[i].success}), 1)

\* The parameters of MemoryManager.on_task_end (task and duration left out).
ON_TASK_END_PARAMS == {"output", "success", "step_count", "tools_used"}

\* memory.on_task_end inside try/except: stored when a store is configured
\* and the call does not raise. A call with a keyword on_task_end does not
\* declare raises TypeError.
Saved(record) ==
    IF memory = "ok" /\ DOMAIN record \subseteq ON_TASK_END_PARAMS
    THEN Append(memory_saves, record)
    ELSE memory_saves

\* A failure return of run before any step ran (lines 226, 242, 248).
ReturnEarly(error) ==
    /\ task_result' = [NoTaskResult EXCEPT !.returned = TRUE, !.error = error]
    /\ pc' = "done"

\* No evaluation outside a run has been made.
NoEval == [success |-> FALSE, reason |-> <<>>, retry_hint |-> <<>>, quality_score |-> 0]

EvalIdle == eval_result = NoEval /\ eval_count = 0

\* No second run shares the instance.
NoFrame == [pc |-> "done"]

PairIdle == parked = NoFrame /\ current = 1

\* No orchestration is under way.
NoOrchResult ==
    [returned |-> FALSE, success |-> FALSE, output |-> <<>>, agent_results |-> <<>>,
     error |-> <<>>]

OrchIdle ==
    /\ delegation = <<>>
    /\ d_idx = 0
    /\ agent_task = <<>>
    /\ agent_results = <<>>
    /\ context = <<>>
    /\ orch_result = NoOrchResult
    /\ verbose = TRUE
    /\ route_calls = 0
    /\ agent_runs = <<>>

\* -------------------------------------------------------------------- run
Init ==
    /\ registry \in Registries
    /\ memory \in MemoryModes
    /\ logger = "ok"
    /\ pc = "start"
    /\ task_type = ""
    /\ use_react = FALSE
    /\ plan_attempt = 0
    /\ steps = <<>>
    /\ validation_error = NoError
    /\ idx = 0
    /\ step_outputs = {}
    /\ last_output = <<>>
    /\ tools_used = <<>>
    /\ step_logs = <<>>
    /\ checked_code = <<>>
    /\ step_input = <<>>
    /\ attempt = 0
    /\ result = NoResult
    /\ memory_hits = 0
    /\ memory_saves = <<>>
    /\ task_result = NoTaskResult
    /\ invoked = <<>>
    /\ events = <<>>
    /\ evaluated = <<>>
    /\ inflight = 0
    /\ EvalIdle
    /\ PairIdle
    /\ OrchIdle

\* Line 203 and lines 150-153: the fast path is taken for a writing task
\* when registry.get("text_writer") does not raise KeyError.
TakesFastPath(is_writing) == is_writing /\ "text_writer" \in registry

\* Logger._log has no handler of its own: with a faulty sink the append of
\* an event can raise, and the exception leaves the method that logs.
LogRaises == logger = "faulty"

\* Mutant: the hit count is taken although the lookup raised.
RunStartCountingHits ==
    /\ pc = "start"
    /\ \E hits \in 0..1 :
          memory_hits' = IF memory # "none" THEN hits ELSE 0
    /\ \E is_writing \in BOOLEAN :
          IF TakesFastPath(is_writing)
          THEN /\ pc' = "writing_call"
               /\ inflight' = inflight + 1
               /\ invoked' = Counted(invoked, 0)
          ELSE /\ pc' = "classify"
               /\ UNCHANGED <<inflight, invoked>>
    /\ events' = Append(events, "task_start")
    /\ UNCHANGED <<config_vars, pair_vars, eval_vars, orch_vars, planner_vars, step_vars, loop_vars, memory_saves,
                   task_result, evaluated>>

\* run, lines 174-216 up to the first await of a completion or a tool: the
\* memory lookup (a fault is logged and swallowed) and the choice of the
\* writing fast path; is_writing is _is_writing_task(task), a lexical test
\* of the task text.
RunStart ==
    /\ pc = "start"
    /\ \/ /\ \E hits \in 0..1 :
                memory_hits' = IF memory = "ok" THEN hits ELSE 0
          /\ \E is_writing \in BOOLEAN :
                IF TakesFastPath(is_writing)
                THEN /\ pc' = "writing_call"
                     /\ inflight' = inflight + 1
                     /\ invoked' = Counted(invoked, 0)
                ELSE /\ pc' = "classify"
                     /\ UNCHANGED <<inflight, invoked>>
          /\ events' = Append(events, "task_start")
       \/ /\ LogRaises
          /\ pc' = "raised"
          /\ UNCHANGED <<memory_hits, inflight, invoked, events>>
    /\ UNCHANGED <<config_vars, pair_vars, eval_vars, orch_vars, planner_vars, step_vars, loop_vars, memory_saves,
                   task_result, evaluated>>

\* Mutant: a result with a non-zero exit status has the fast-path tool
\* called once more.
WritingReturnRetrying ==
    /\ pc = "writing_call"
    /\ \E r \in ToolReturns :
          IF r.kind = "raise"
          THEN /\ pc' = "classify"
               /\ UNCHANGED <<step_logs, memory_saves, task_result, invoked, inflight>>
          ELSE IF r.exit_code # 0 /\ Count(invoked, 0) < MAX_RETRIES
          THEN /\ pc' = "writing_call"
               /\ invoked' = Counted(invoked, 0)
               /\ UNCHANGED <<step_logs, memory_saves, task_result, inflight>>
          ELSE LET ok == r.exit_code = 0
                   log == [step_id |-> 1, tool |-> "text_writer", output |-> r.output,
                           error |-> r.error, success |-> ok, attempts |-> 1,
                           quality_score |-> 0]
               IN /\ step_logs' = <<log>>
                  /\ memory_saves' = memory_saves
                  /\ task_result' = [returned |-> TRUE, success |-> ok, output |-> r.output,
                                     steps |-> <<log>>,
                                     error |-> IF ok THEN <<>> ELSE r.error,
                                     quality_score |-> 0]
                  /\ pc' = "done"
                  /\ inflight' = inflight - 1
                  /\ invoked' = invoked
    /\ UNCHANGED <<config_vars, pair_vars, eval_vars, orch_vars, planner_vars, step_vars, idx, step_outputs, last_output,
                   tools_used, memory_hits, evaluated, events>>

\* _run_writing_task after tool.execute returns, and lines 206-216 of run: a
\* fault of the tool is logged and run goes on to planning.
WritingReturn ==
    /\ pc = "writing_call"
    /\ \E r \in ToolReturns :
          IF r.kind = "raise"
          THEN /\ pc' = "classify"
               /\ UNCHANGED <<step_logs, memory_saves, task_result>>
          ELSE LET ok == r.exit_code = 0
                   log == [step_id |-> 1, tool |-> "text_writer", output |-> r.output,
                           error |-> r.error, success |-> ok, attempts |-> 1,
                           quality_score |-> 0]
               IN /\ step_logs' = <<log>>
                  /\ memory_saves' =
                        IF ok
                        THEN Saved([output |-> r.output, success |-> TRUE, step_count |-> 1,
                                    tools_used |-> <<"text_writer">>, quality_score |-> 80])
                        ELSE memory_saves
                  /\ task_result' = [returned |-> TRUE, success |-> ok, output |-> r.output,
                                     steps |-> <<log>>,
                                     error |-> IF ok THEN <<>> ELSE r.error,
                                     quality_score |-> 0]
                  /\ pc' = "done"
    /\ inflight' = inflight - 1
    /\ UNCHANGED <<config_vars, pair_vars, eval_vars, orch_vars, planner_vars, step_vars, idx, step_outputs, last_output,
                   tools_used, memory_hits, invoked, evaluated, events>>

\* An exception leaving the planner: out of Planner.plan (line 224) or out
\* of the re-plan (line 246).
PlannerRaised(replan) ==
    /\ ReturnEarly(IF replan THEN <<"Re-planning failed:">> ELSE <<"Planning failed:">>)
    /\ UNCHANGED <<task_type, use_react, plan_attempt, steps, validation_error, idx>>

\* Mutant: an invalid re-plan starts another re-planning round.
PlanReturnedAnotherRound(parsed, replan) ==
    LET err == validate_plan(parsed, registry)
    IN /\ steps' = parsed
       /\ validation_error' = err
       /\ task_type' = ""
       /\ use_react' = FALSE
       /\ plan_attempt' = 0
       /\ idx' = IF err = NoError THEN 1 ELSE idx
       /\ task_result' = task_result
       /\ pc' = IF err = NoError THEN "exec" ELSE "replan_fast"

\* A plan handed to run: by Planner.plan (line 222) or by the re-plan
\* (lines 237-240); _validate_plan follows without an await. The planner's
\* locals are gone once it has returned.
PlanReturned(parsed, replan) ==
    LET err == validate_plan(parsed, registry)
    IN /\ steps' = parsed
       /\ validation_error' = err
       /\ task_type' = ""
       /\ use_react' = FALSE
       /\ plan_attempt' = 0
       /\ IF err = NoError
          THEN /\ pc' = "exec"
               /\ idx' = 1
               /\ task_result' = task_result
          ELSE IF ~replan
          THEN /\ pc' = "replan_fast"
               /\ idx' = idx
               /\ task_result' = task_result
          ELSE /\ ReturnEarly(<<"Plan validation failed after retry:", err.kind>>)
               /\ idx' = idx

\* Another completion of the ladder is awaited next.
PlannerGoes(next_pc, next_attempt) ==
    /\ pc' = next_pc
    /\ plan_attempt' = next_attempt
    /\ use_react' = IF next_pc = "react" THEN TRUE ELSE use_react
    /\ UNCHANGED <<task_type, steps, validation_error, idx, task_result>>

\* _classify: the low-cost completion; then plan picks the first stage:
\* use_react = _is_complex(task), a lexical test of the task text.
Classify ==
    /\ pc = "classify"
    /\ \E r \in ClassifierResponses : task_type' = classify(r)
    /\ \E complex \in BOOLEAN :
          /\ use_react' = complex
          /\ pc' = IF complex THEN "react" ELSE "specialized"
    /\ plan_attempt' = 0
    /\ UNCHANGED <<config_vars, pair_vars, eval_vars, orch_vars, steps, validation_error, step_vars, loop_vars,
                   memory_hits, memory_saves, task_result, hist_vars>>

\* _specialized_plan: one completion of its two-attempt loop, and what plan
\* does with its return value.
SpecializedCall ==
    /\ pc = "specialized"
    /\ \E r \in PlanResponses :
          IF r.kind = "raise" THEN PlannerRaised(FALSE)
          ELSE IF ParseFails(r)
          THEN IF plan_attempt = 0 THEN PlannerGoes("specialized", 1)
               ELSE PlannerGoes("fast", 0)
          ELSE IF parse_steps(r) # <<>> THEN PlanReturned(parse_steps(r), FALSE)
          ELSE PlannerGoes("fast", 0)
    /\ UNCHANGED <<config_vars, pair_vars, eval_vars, orch_vars, step_vars, step_outputs, last_output, tools_used,
                   step_logs, memory_hits, memory_saves, hist_vars>>

\* _fast_plan: one completion of its two-attempt loop; an empty return sends
\* the caller on to _react_plan. Called by plan (line 217) and by the re-plan
\* of run (line 237).
FastPlan(replan) ==
    \E r \in PlanResponses :
        IF r.kind = "raise" THEN PlannerRaised(replan)
        ELSE IF ParseFails(r)
        THEN IF plan_attempt = 0
             THEN PlannerGoes(IF replan THEN "replan_fast" ELSE "fast", 1)
             ELSE PlannerGoes(IF replan THEN "replan_react" ELSE "react", 0)
        ELSE IF parse_steps(r) # <<>> THEN PlanReturned(parse_steps(r), replan)
        ELSE PlannerGoes(IF replan THEN "replan_react" ELSE "react", 0)

FastCall ==
    /\ pc = "fast"
    /\ FastPlan(FALSE)
    /\ UNCHANGED <<config_vars, pair_vars, eval_vars, orch_vars, step_vars, step_outputs, last_output, tools_used,
                   step_logs, memory_hits, memory_saves, hist_vars>>

ReplanFastCall ==
    /\ pc = "replan_fast"
    /\ FastPlan(TRUE)
    /\ UNCHANGED <<config_vars, pair_vars, eval_vars, orch_vars, step_vars, step_outputs, last_output, tools_used,
                   step_logs, memory_hits, memory_saves, hist_vars>>

\* Mutant: the reasoning stage asks again after a response that does not parse.
ReactPlanAsksAgain(replan) ==
    \E r \in PlanResponses :
        IF r.kind = "raise" THEN PlannerRaised(replan)
        ELSE IF ParseFails(r)
        THEN PlannerGoes(IF replan THEN "replan_react" ELSE "react", 1)
        ELSE PlanReturned(parse_steps(r), replan)

\* _react_plan: one completion, no retry; a parse failure is raised, any
\* parsed array is returned.
ReactPlan(replan) ==
    \E r \in PlanResponses :
        IF r.kind = "raise" \/ ParseFails(r) THEN PlannerRaised(replan)
        ELSE PlanReturned(parse_steps(r), replan)

ReactCall ==
    /\ pc = "react"
    /\ ReactPlan(FALSE)
    /\ UNCHANGED <<config_vars, pair_vars, eval_vars, orch_vars, step_vars, step_outputs, last_output, tools_used,
                   step_logs, memory_hits, memory_saves, hist_vars>>

ReplanReactCall ==
    /\ pc = "replan_react"
    /\ ReactPlan(TRUE)
    /\ UNCHANGED <<config_vars, pair_vars, eval_vars, orch_vars, step_vars, step_outputs, last_output, tools_used,
                   step_logs, memory_hits, memory_saves, hist_vars>>

\* ------------------------------------------------------------- step loop
\* Mutant: the failed step is recorded and the loop goes on.
SettleFailContinue(log) ==
    /\ step_logs' = Append(step_logs, log)
    /\ memory_saves' = memory_saves
    /\ idx' = idx + 1
    /\ IF idx + 1 > Len(steps)
       THEN /\ task_result' =
                  [returned |-> TRUE, success |-> FALSE, output |-> last_output,
                   steps |-> Append(step_logs, log),
                   error |-> <<"Step", IdText(log.step_id), "failed:">> \o log.error,
                   quality_score |-> 0]
            /\ pc' = "done"
       ELSE /\ task_result' = task_result
            /\ pc' = "exec"
    /\ UNCHANGED <<step_outputs, last_output, tools_used>>

\* Mutant: the failed step's own output is reported as the task output.
SettleFailOwnOutput(log) ==
    /\ step_logs' = Append(step_logs, log)
    /\ memory_saves' = memory_saves
    /\ task_result' =
          [returned |-> TRUE, success |-> FALSE, output |-> log.output,
           steps |-> Append(step_logs, log),
           error |-> <<"Step", IdText(log.step_id), "failed:">> \o log.error,
           quality_score |-> 0]
    /\ pc' = "done"
    /\ UNCHANGED <<idx, step_outputs, last_output, tools_used>>

\* Lines 280-291: the step settled as failed; run saves the outcome and
\* returns. No later step is looked at.
SettleFail(log) ==
    /\ step_logs' = Append(step_logs, log)
    /\ memory_saves' = Saved([output |-> last_output, success |-> FALSE,
                              step_count |-> Len(step_logs) + 1,
                              tools_used |-> tools_used, quality_score |-> 20])
    /\ \/ /\ task_result' =
                [returned |-> TRUE, success |-> FALSE, output |-> last_output,
                 steps |-> Append(step_logs, log),
                 error |-> <<"Step", IdText(log.step_id), "failed:">> \o log.error,
                 quality_score |-> 0]
          /\ pc' = "done"
       \/ /\ LogRaises
          /\ task_result' = task_result
          /\ pc' = "raised"
    /\ UNCHANGED <<idx, step_outputs, last_output, tools_used>>

\* Lines 275-279, and lines 293-312 after the last step.
SettleSuccess(log) ==
    LET logs == Append(step_logs, log)
        used == IF \E i \in 1..Len(tools_used) : tools_used[i] = log.tool
                THEN tools_used ELSE Append(tools_used, log.tool)
    IN /\ step_logs' = logs
       /\ step_outputs' = OutputsPut(step_outputs, log.step_id, log.output)
       /\ last_output' = log.output
       /\ tools_used' = used
       /\ idx' = idx + 1
       /\ IF idx + 1 > Len(steps)
          THEN /\ memory_saves' = Saved([output |-> log.output, success |-> TRUE,
                                         step_count |-> Len(logs), tools_used |-> used,
                                         quality_score |-> AvgQuality(logs)])
               /\ \/ /\ task_result' =
                           [returned |-> TRUE, success |-> TRUE, output |-> log.output,
                            steps |-> logs, error |-> <<>>,
                            quality_score |-> AvgQuality(logs)]
                     /\ pc' = "done"
                  \/ /\ LogRaises
                     /\ task_result' = task_result
                     /\ pc' = "raised"
          ELSE /\ memory_saves' = memory_saves
               /\ task_result' = task_result
               /\ pc' = "exec"

\* log_task_end (lines 287 and 304) is the last call before run returns out
\* of the step loop: evs with the task_end event when run has returned.
TaskEnded(evs) == IF pc' = "done" THEN Append(evs, "task_end") ELSE evs

\* _execute_step returned: its locals are gone.
StepReturned ==
    /\ checked_code' = <<>>
    /\ step_input' = <<>>
    /\ attempt' = 0
    /\ result' = NoResult

\* Mutant: the gate is keyed on a tool name no tool has.
GateAppliesWrongName(step) == step.tool = "code"

\* Whether _execute_step runs the safety gate on the step before the retry
\* loop (line 319).
GateApplies(step) == step.tool = "code_executor"

\* Mutant: the loop does not wait for the call in flight.
StepMayBeginEarly == pc \in {"exec", "tool_call"}

\* `log = await self._execute_step(...)` (line 272): the loop body starts
\* for the step at idx only when nothing of an earlier step is awaited.
StepMayBegin == pc = "exec"

\* Lines 262-272 and 314-344: resolve the placeholders of the step at idx,
\* run the safety gate on a code step, look the tool up, and start attempt 1.
StepBegin ==
    /\ StepMayBegin
    /\ idx \in 1..Len(steps)
    /\ LET step == steps[idx]
           resolved == ResolveInput(step.input, step_outputs)
           verdict == validate_code(CodeOf(resolved))
       IN IF GateApplies(step) /\ ~verdict.allowed
          THEN /\ SettleFail(StepLog(step, <<>>, <<"Safety block:">> \o verdict.reason,
                                     FALSE, 1, 0))
               /\ StepReturned
               /\ events' = TaskEnded(events)
               /\ UNCHANGED <<invoked, evaluated, inflight>>
          ELSE IF step.tool \notin registry
          THEN /\ SettleFail(StepLog(step, <<>>,
                                     <<"Tool not found in registry:", step.tool>>,
                                     FALSE, 1, 0))
               /\ StepReturned
               /\ events' = TaskEnded(events)
               /\ UNCHANGED <<invoked, evaluated, inflight>>
          ELSE /\ checked_code' = IF GateApplies(step) THEN CodeOf(resolved) ELSE <<>>
               /\ step_input' = resolved
               /\ result' = NoResult
               /\ attempt' = 1
               /\ inflight' = inflight + 1
               /\ invoked' = Counted(invoked, idx)
               /\ pc' = "tool_call"
               /\ UNCHANGED <<loop_vars, memory_saves, task_result, evaluated, events>>
    /\ UNCHANGED <<config_vars, pair_vars, eval_vars, orch_vars, planner_vars, memory_hits>>

\* Mutant: the loop runs two attempts longer.
MayRetryTwiceMore(a) == a < MAX_RETRIES + 2

\* Mutant: the loop bound is off by one.
MayRetryOnceMore(a) == a <= MAX_RETRIES

\* `for attempt in range(1, MAX_RETRIES + 1)`: another attempt follows a.
MayRetry(a) == a < MAX_RETRIES

\* Line 368: log_step raised; the exception leaves _execute_step and run.
LogStepRaised ==
    /\ LogRaises
    /\ pc' = "raised"
    /\ StepReturned
    /\ inflight' = inflight - 1
    /\ UNCHANGED <<loop_vars, memory_saves, task_result, invoked, events>>

\* Lines 368-387 once the attempt has its EvalResult: log_step, then success,
\* another attempt with the hint, or exhaustion.
ApplyEval(eval, r) ==
    LET step == steps[idx]
    IN \/ IF eval.success
          THEN /\ SettleSuccess(StepLog(step, r.output, <<>>, TRUE, attempt,
                                        eval.quality_score))
               /\ StepReturned
               /\ inflight' = inflight - 1
               /\ events' = TaskEnded(Append(events, "step"))
               /\ UNCHANGED invoked
          ELSE IF MayRetry(attempt)
          THEN /\ step_input' = NextStepInput(step_input, step.tool, eval)
               /\ attempt' = attempt + 1
               /\ inflight' = inflight
               /\ invoked' = Counted(invoked, idx)
               /\ pc' = "tool_call"
               /\ result' = NoResult
               /\ events' = Append(events, "step")
               /\ UNCHANGED <<checked_code, loop_vars, memory_saves, task_result>>
          ELSE /\ SettleFail(StepLog(step, r.output, eval.reason, FALSE, MAX_RETRIES, 0))
               /\ StepReturned
               /\ inflight' = inflight - 1
               /\ events' = TaskEnded(Append(events, "step"))
               /\ UNCHANGED invoked
       \/ LogStepRaised

\* Mutant: the crashed step reports the whole retry budget as used.
CrashLogFullBudget(step, r, a) ==
    StepLog(step, <<>>, <<"Step", IdText(step.id), "crashed:">> \o r.error, FALSE,
            MAX_RETRIES, 0)

\* Lines 345-349: the StepLog of an attempt whose tool.execute raised; the
\* error is log_exception's text, the context followed by the fault.
CrashLog(step, r, a) ==
    StepLog(step, <<>>, <<"Step", IdText(step.id), "crashed:">> \o r.error, FALSE, a, 0)

\* Lines 343-362: tool.execute came back. A fault settles the step at once;
\* a result goes to the evaluator, whose fast path may decide it.
ToolReturn ==
    /\ pc = "tool_call"
    /\ \E r \in ToolReturns :
          IF r.kind = "raise"
          THEN /\ SettleFail(CrashLog(steps[idx], r, attempt))
               /\ StepReturned
               /\ inflight' = inflight - 1
               /\ events' = TaskEnded(events)
               /\ UNCHANGED <<invoked, evaluated>>
          ELSE /\ evaluated' = Counted(evaluated, idx)
               /\ IF FastPath(r).decided
                  THEN ApplyEval(FastPath(r).eval, r)
                  ELSE /\ pc' = "judge_call"
                       /\ result' = r
                       /\ UNCHANGED <<checked_code, step_input, attempt, loop_vars,
                                      memory_saves, task_result, inflight, invoked,
                                      events>>
    /\ UNCHANGED <<config_vars, pair_vars, eval_vars, orch_vars, planner_vars, memory_hits>>

\* Lines 62-68 of the evaluator and 363-366 of the loop: the judged
\* completion came back, or failed (the evaluator raised).
JudgeReturn ==
    /\ pc = "judge_call"
    /\ \E j \in JudgeResponses :
          ApplyEval(IF j.kind = "raise" THEN EvaluatorUnavailable(result)
                    ELSE ParseJudgement(j), result)
    /\ UNCHANGED <<config_vars, pair_vars, eval_vars, orch_vars, planner_vars, memory_hits, evaluated>>

Next ==
    \/ RunStart
    \/ WritingReturn
    \/ Classify
    \/ SpecializedCall
    \/ FastCall
    \/ ReactCall
    \/ ReplanFastCall
    \/ ReplanReactCall
    \/ StepBegin
    \/ ToolReturn
    \/ JudgeReturn

Spec == Init /\ [][Next]_vars

\* --------------------------------------------------- the planner on its own
\* run up to the head of its step loop (lines 174-256): the completions of
\* Planner.plan and of the re-plan, and nothing after them.
NextPlan ==
    \/ RunStart
    \/ Classify
    \/ SpecializedCall
    \/ FastCall
    \/ ReactCall
    \/ ReplanFastCall
    \/ ReplanReactCall

SpecPlan == Init /\ [][NextPlan]_vars

\* ------------------------------------------------- the validator on its own
\* Longest hand-built plan given to _validate_plan.
MaxHandLen == 2

\* Hand-built steps: every id of 1..3 with a code step (with and without
\* its code), a file step, a text_writer step and a step of an unknown
\* tool, each with no dependency, a dependency on step 1 or 2, or on step 1
\* and the absent step 4.
HandSteps ==
    {[id |-> i, tool |-> shape.tool, description |-> shape.tool, input |-> shape.input,
      depends_on |-> deps] :
        i \in 1..3,
        shape \in {[tool |-> "code_executor", input |-> [code |-> <<"print">>]],
                   [tool |-> "code_executor", input |-> [domains |-> <<>>]],
                   [tool |-> "file_manager", input |-> [action |-> <<"list">>]],
                   [tool |-> "text_writer", input |-> [prompt |-> <<"write">>]],
                   [tool |-> "shell", input |-> [cmd |-> <<"ls">>]]},
        deps \in {<<>>, <<1>>, <<2>>, <<1, 4>>}}

HandPlans == SeqsUpTo(HandSteps, MaxHandLen) \cup {parse_steps([items |-> LongItems])}

InitValidate ==
    /\ registry \in Registries
    /\ memory \in MemoryModes
    /\ logger = "ok"
    /\ pc = "hand_built"
    /\ task_type = ""
    /\ use_react = FALSE
    /\ plan_attempt = 0
    /\ steps \in HandPlans
    /\ validation_error = NoError
    /\ idx = 0
    /\ step_outputs = {}
    /\ last_output = <<>>
    /\ tools_used = <<>>
    /\ step_logs = <<>>
    /\ checked_code = <<>>
    /\ step_input = <<>>
    /\ attempt = 0
    /\ result = NoResult
    /\ memory_hits = 0
    /\ memory_saves = <<>>
    /\ task_result = NoTaskResult
    /\ invoked = <<>>
    /\ events = <<>>
    /\ evaluated = <<>>
    /\ inflight = 0
    /\ EvalIdle
    /\ PairIdle
    /\ OrchIdle

\* _validate_plan applied to a hand-built plan.
ValidateHandBuilt ==
    /\ pc = "hand_built"
    /\ validation_error' = validate_plan(steps, registry)
    /\ pc' = "validated"
    /\ UNCHANGED <<config_vars, pair_vars, eval_vars, orch_vars, task_type, use_react, plan_attempt, steps, step_vars,
                   loop_vars, memory_hits, memory_saves, task_result, hist_vars>>

NextValidate == ValidateHandBuilt

SpecValidate == InitValidate /\ [][NextValidate]_vars

\* ------------------------------------------------- the evaluator on its own
\* Evaluations made of one ToolResult.
MaxEvaluations == 2

\* Everything of CoreLoop.run but its position, its collaborators, its plan
\* and the ToolResult at hand is as constructed.
RunIdle ==
    /\ task_type = ""
    /\ use_react = FALSE
    /\ plan_attempt = 0
    /\ validation_error = NoError
    /\ idx = 0
    /\ step_outputs = {}
    /\ last_output = <<>>
    /\ tools_used = <<>>
    /\ step_logs = <<>>
    /\ checked_code = <<>>
    /\ step_input = <<>>
    /\ attempt = 0
    /\ memory_hits = 0
    /\ memory_saves = <<>>
    /\ task_result = NoTaskResult
    /\ invoked = <<>>
    /\ events = <<>>
    /\ evaluated = <<>>
    /\ inflight = 0

core_vars == <<config_vars, pair_vars, planner_vars, step_vars, loop_vars, memory_hits,
               memory_saves, task_result, hist_vars>>

\* An error text one token longer than the slice the retry hint keeps.
LongError == [i \in 1..(ERROR_HINT_CHARS + 1) |-> "e"]

\* ToolResults given to Evaluator.evaluate: every exit status of -1, 0, 1, 2
\* with no, a short or a long error text and with or without output.
HandResults ==
    {[kind |-> "result", output |-> out, error |-> err, exit_code |-> code] :
        out \in {<<>>, <<"300">>},
        err \in {<<>>, <<"Traceback">>, LongError},
        code \in {-1, 0, 1, 2}}

InitEvaluate ==
    /\ registry = MainRegistry
    /\ memory = "none"
    /\ logger = "ok"
    /\ pc = "hand_result"
    /\ steps = <<>>
    /\ result \in HandResults
    /\ RunIdle
    /\ EvalIdle
    /\ PairIdle
    /\ OrchIdle

\* Evaluator.evaluate up to its return or its completion call (lines 31-62).
EvaluateCall ==
    /\ pc \in {"hand_result", "evaluated"}
    /\ eval_count < MaxEvaluations
    /\ IF FastPath(result).decided
       THEN /\ eval_result' = FastPath(result).eval
            /\ eval_count' = eval_count + 1
            /\ pc' = "evaluated"
       ELSE /\ pc' = "completion_call"
            /\ UNCHANGED eval_vars
    /\ UNCHANGED <<core_vars, orch_vars>>

\* The completion came back and _parse ran (lines 62-96), or the call
\* failed and evaluate raised.
EvaluateJudged ==
    /\ pc = "completion_call"
    /\ \E j \in JudgeResponses :
          IF j.kind = "raise"
          THEN /\ pc' = "evaluate_raised"
               /\ UNCHANGED eval_vars
          ELSE /\ eval_result' = ParseJudgement(j)
               /\ eval_count' = eval_count + 1
               /\ pc' = "evaluated"
    /\ UNCHANGED <<core_vars, orch_vars>>

NextEvaluate ==
    \/ EvaluateCall
    \/ EvaluateJudged

SpecEvaluate == InitEvaluate /\ [][NextEvaluate]_vars

\* ------------------------------------------------ run with a memory store
\* CoreLoop constructed with a MemoryManager whose calls raise ("faulty"),
\* next to the loop without one.
StoreModes == {"none", "faulty"}

InitMemory ==
    /\ registry = MainRegistry \cup {"text_writer"}
    /\ memory \in StoreModes
    /\ logger = "ok"
    /\ pc = "start"
    /\ steps = <<>>
    /\ result = NoResult
    /\ RunIdle
    /\ EvalIdle
    /\ PairIdle
    /\ OrchIdle

SpecMemory == InitMemory /\ [][Next]_vars

\* ------------------------------------------------ run with a working store
\* CoreLoop constructed with a MemoryManager whose database works.
InitStore ==
    /\ registry = MainRegistry \cup {"text_writer"}
    /\ memory = "ok"
    /\ logger = "ok"
    /\ pc = "start"
    /\ steps = <<>>
    /\ result = NoResult
    /\ RunIdle
    /\ EvalIdle
    /\ PairIdle
    /\ OrchIdle

SpecStore == InitStore /\ [][Next]_vars

\* ------------------------------------------------ run with a faulty log sink
\* CoreLoop whose Logger writes to a file that cannot always be appended to.
InitLogger ==
    /\ registry = MainRegistry \cup {"text_writer"}
    /\ memory = "none"
    /\ logger = "faulty"
    /\ pc = "start"
    /\ steps = <<>>
    /\ result = NoResult
    /\ RunIdle
    /\ EvalIdle
    /\ PairIdle
    /\ OrchIdle

SpecLogger == InitLogger /\ [][Next]_vars

\* ------------------------------------------- the step loop on code plans
\* run from the start of its step loop, on validated plans of code steps
\* that ask for outbound network targets.
MaxGateLen == 2

\* input.get("domains", []) of CodeExecutorTool.execute.
DomainsOf(input) ==
    IF "domains" \in DOMAIN input THEN SplitDomains(input["domains"]) ELSE <<>>

DomainTexts ==
    {<<>>, <<"example.com">>, <<"localhost">>, <<"example.com", ",", "10.", "0.0.1">>}

\* Plans of code steps with ids 1, 2, ... and a list of domains each.
GatePlans ==
    {q \in UNION {[1..n -> DomainTexts] : n \in 1..MaxGateLen} : TRUE}

GateStep(i, domains) ==
    [id |-> i, tool |-> "code_executor", description |-> "fetch",
     input |-> [code |-> <<"print">>, domains |-> domains], depends_on |-> <<>>]

InitGate ==
    /\ registry = MainRegistry
    /\ memory = "none"
    /\ logger = "ok"
    /\ pc = "exec"
    /\ \E q \in GatePlans : steps = [i \in 1..Len(q) |-> GateStep(i, q[i])]
    /\ validate_plan(steps, registry) = NoError
    /\ task_type = "code"
    /\ use_react = FALSE
    /\ plan_attempt = 0
    /\ validation_error = NoError
    /\ idx = 1
    /\ step_outputs = {}
    /\ last_output = <<>>
    /\ tools_used = <<>>
    /\ step_logs = <<>>
    /\ checked_code = <<>>
    /\ step_input = <<>>
    /\ attempt = 0
    /\ result = NoResult
    /\ memory_hits = 0
    /\ memory_saves = <<>>
    /\ task_result = NoTaskResult
    /\ invoked = <<>>
    /\ events = <<>>
    /\ evaluated = <<>>
    /\ inflight = 0
    /\ EvalIdle
    /\ PairIdle
    /\ OrchIdle

NextGate ==
    \/ StepBegin
    \/ ToolReturn
    \/ JudgeReturn

SpecGate == InitGate /\ [][NextGate]_vars

\* ------------------------------------------ the step loop on flagged code
\* Code texts: plain; matching the caution list only; matching both lists
\* (caution signature first, and deny signature first); matching the deny
\* list only, one of them with the two-piece signature.
CodeTexts ==
    {<<"print">>, <<"requests.post">>, <<"print", "smtplib">>,
     <<"requests.post", "os.system">>, <<"eval(", "smtplib">>,
     <<"subprocess">>, <<"exec(", "compile(">>}

CodeStep(i, code) ==
    [id |-> i, tool |-> "code_executor", description |-> "send",
     input |-> [code |-> code], depends_on |-> <<>>]

\* Plans of one code step, alone or followed by a plain step.
CodePlans ==
    {<<CodeStep(1, c)>> : c \in CodeTexts}
    \cup {<<CodeStep(1, c), CodeStep(2, <<"print">>)>> : c \in CodeTexts}

\* run at the head of its step loop, with a plan _validate_plan accepted.
InitCode ==
    /\ registry = MainRegistry
    /\ memory = "none"
    /\ logger = "ok"
    /\ pc = "exec"
    /\ steps \in CodePlans
    /\ validate_plan(steps, registry) = NoError
    /\ task_type = "code"
    /\ use_react = FALSE
    /\ plan_attempt = 0
    /\ validation_error = NoError
    /\ idx = 1
    /\ step_outputs = {}
    /\ last_output = <<>>
    /\ tools_used = <<>>
    /\ step_logs = <<>>
    /\ checked_code = <<>>
    /\ step_input = <<>>
    /\ attempt = 0
    /\ result = NoResult
    /\ memory_hits = 0
    /\ memory_saves = <<>>
    /\ task_result = NoTaskResult
    /\ invoked = <<>>
    /\ events = <<>>
    /\ evaluated = <<>>
    /\ inflight = 0
    /\ EvalIdle
    /\ PairIdle
    /\ OrchIdle

NextCode ==
    \/ StepBegin
    \/ ToolReturn
    \/ JudgeReturn

SpecCode == InitCode /\ [][NextCode]_vars

\* -------------------------------------------- two runs sharing an instance
\* The frame of a run: the locals of run and of _execute_step, and the await
\* the coroutine is suspended at. Nothing of it is kept on the instance.
Frame ==
    [pc |-> pc, task_type |-> task_type, use_react |-> use_react,
     plan_attempt |-> plan_attempt, steps |-> steps,
     validation_error |-> validation_error, idx |-> idx,
     step_outputs |-> step_outputs, last_output |-> last_output,
     tools_used |-> tools_used, step_logs |-> step_logs,
     checked_code |-> checked_code, step_input |-> step_input,
     attempt |-> attempt, result |-> result, memory_hits |-> memory_hits,
     task_result |-> task_result, invoked |-> invoked, evaluated |-> evaluated,
     inflight |-> inflight]

\* Mutant: step_outputs is kept on the instance, one dict for all its runs.
ResumedSharingOutputs(f) ==
    /\ pc' = f.pc
    /\ task_type' = f.task_type
    /\ use_react' = f.use_react
    /\ plan_attempt' = f.plan_attempt
    /\ steps' = f.steps
    /\ validation_error' = f.validation_error
    /\ idx' = f.idx
    /\ step_outputs' = step_outputs
    /\ last_output' = f.last_output
    /\ tools_used' = f.tools_used
    /\ step_logs' = f.step_logs
    /\ checked_code' = f.checked_code
    /\ step_input' = f.step_input
    /\ attempt' = f.attempt
    /\ result' = f.result
    /\ memory_hits' = f.memory_hits
    /\ task_result' = f.task_result
    /\ invoked' = f.invoked
    /\ evaluated' = f.evaluated
    /\ inflight' = f.inflight

\* The coroutine with frame f is resumed: its locals are as it left them.
Resumed(f) ==
    /\ pc' = f.pc
    /\ task_type' = f.task_type
    /\ use_react' = f.use_react
    /\ plan_attempt' = f.plan_attempt
    /\ steps' = f.steps
    /\ validation_error' = f.validation_error
    /\ idx' = f.idx
    /\ step_outputs' = f.step_outputs
    /\ last_output' = f.last_output
    /\ tools_used' = f.tools_used
    /\ step_logs' = f.step_logs
    /\ checked_code' = f.checked_code
    /\ step_input' = f.step_input
    /\ attempt' = f.attempt
    /\ result' = f.result
    /\ memory_hits' = f.memory_hits
    /\ task_result' = f.task_result
    /\ invoked' = f.invoked
    /\ evaluated' = f.evaluated
    /\ inflight' = f.inflight

\* The event loop at an await of the running task (`await tool.execute`,
\* `await self.evaluator.evaluate`) or at its return: the task is suspended
\* and the other one is resumed where it was. The registry, the memory store
\* and the log are the instance's and stay.
Switch ==
    /\ pc \in {"tool_call", "judge_call", "done"}
    /\ parked.pc # "done"
    /\ parked' = Frame
    /\ Resumed(parked)
    /\ current' = 3 - current
    /\ UNCHANGED <<config_vars, eval_vars, orch_vars, memory_saves, events>>

\* A file step; the second one of a plan reads the output of the first.
PairStep(i) ==
    [id |-> i, tool |-> "file_manager", description |-> "file",
     input |-> IF i = 1 THEN [path |-> <<"notes">>]
               ELSE [path |-> <<"copy", "{{step_1_output}}">>],
     depends_on |-> IF i = 1 THEN <<>> ELSE <<1>>]

\* The plan of the first run, whose second step reads the first, and the
\* plan of the second run.
PairPlans == <<  <<PairStep(1), PairStep(2)>>, <<PairStep(1)>>  >>

\* Two runs at the head of their step loops, each with a plan _validate_plan
\* accepted; the first is running, the second has not reached its first await.
InitPair ==
    /\ registry = MainRegistry
    /\ memory = "none"
    /\ logger = "ok"
    /\ pc = "exec"
    /\ steps = PairPlans[1]
    /\ validate_plan(steps, registry) = NoError
    /\ task_type = ""
    /\ use_react = FALSE
    /\ plan_attempt = 0
    /\ validation_error = NoError
    /\ idx = 1
    /\ step_outputs = {}
    /\ last_output = <<>>
    /\ tools_used = <<>>
    /\ step_logs = <<>>
    /\ checked_code = <<>>
    /\ step_input = <<>>
    /\ attempt = 0
    /\ result = NoResult
    /\ memory_hits = 0
    /\ memory_saves = <<>>
    /\ task_result = NoTaskResult
    /\ invoked = <<>>
    /\ events = <<>>
    /\ evaluated = <<>>
    /\ inflight = 0
    /\ EvalIdle
    /\ OrchIdle
    /\ current = 1
    /\ LET q == PairPlans[2]
       IN /\ validate_plan(q, registry) = NoError
          /\ parked = [pc |-> "exec", task_type |-> "", use_react |-> FALSE,
                       plan_attempt |-> 0, steps |-> q, validation_error |-> NoError,
                       idx |-> 1, step_outputs |-> {}, last_output |-> <<>>,
                       tools_used |-> <<>>, step_logs |-> <<>>, checked_code |-> <<>>,
                       step_input |-> <<>>, attempt |-> 0, result |-> NoResult,
                       memory_hits |-> 0, task_result |-> NoTaskResult,
                       invoked |-> <<>>, evaluated |-> <<>>, inflight |-> 0]

NextPair ==
    \/ StepBegin
    \/ ToolReturn
    \/ JudgeReturn
    \/ Switch

SpecPair == InitPair /\ [][NextPair]_vars

\* ------------------------------------------- the step loop on ordered plans
\* Parsed steps a planning completion can name in either order: step 1, and
\* step 2 which reads the output of step 1 and depends on it.
OrderSteps ==
    {[id |-> 1, tool |-> "code_executor", description |-> "calculate",
      input |-> [code |-> <<"print">>], depends_on |-> <<>>],
     [id |-> 2, tool |-> "code_executor", description |-> "report",
      input |-> [code |-> <<"exec(", "{{step_1_output}}">>], depends_on |-> <<1>>]}

OrderPlans == SeqsUpTo(OrderSteps, MaxPlanLen) \ {<<>>}

\* run at the head of its step loop, with a plan _validate_plan accepted.
InitOrder ==
    /\ registry = MainRegistry
    /\ memory = "none"
    /\ logger = "ok"
    /\ pc = "exec"
    /\ steps \in OrderPlans
    /\ validate_plan(steps, registry) = NoError
    /\ task_type = "code"
    /\ use_react = FALSE
    /\ plan_attempt = 0
    /\ validation_error = NoError
    /\ idx = 1
    /\ step_outputs = {}
    /\ last_output = <<>>
    /\ tools_used = <<>>
    /\ step_logs = <<>>
    /\ checked_code = <<>>
    /\ step_input = <<>>
    /\ attempt = 0
    /\ result = NoResult
    /\ memory_hits = 0
    /\ memory_saves = <<>>
    /\ task_result = NoTaskResult
    /\ invoked = <<>>
    /\ events = <<>>
    /\ evaluated = <<>>
    /\ inflight = 0
    /\ EvalIdle
    /\ PairIdle
    /\ OrchIdle

NextOrder ==
    \/ StepBegin
    \/ ToolReturn
    \/ JudgeReturn

SpecOrder == InitOrder /\ [][NextOrder]_vars

\* --------------------------------- the step loop with the evaluator down
\* Lines 363-366 of the loop: evaluator.evaluate raised (its completion
\* call failed) and the attempt gets the stand-in EvalResult.
JudgeRaised ==
    /\ pc = "judge_call"
    /\ ApplyEval(EvaluatorUnavailable(result), result)
    /\ UNCHANGED <<config_vars, pair_vars, eval_vars, orch_vars, planner_vars, memory_hits,
                   evaluated>>

\* The step loop when every judged evaluation raises.
NextJudgeDown ==
    \/ StepBegin
    \/ ToolReturn
    \/ JudgeRaised

SpecJudgeDown == InitOrder /\ [][NextJudgeDown]_vars

\* ------------------------------------------------ the orchestrator on its own
\* Orchestrator.run with the agents as collaborators: an agent's run is a
\* call that comes back with an AgentResult or raises.
MaxDelegations == 2

\* The keys of Orchestrator._agents.
AgentNames == {"coder", "researcher", "writer", "analyst"}

\* Items the decoded routing array can hold: {agent, task} objects, one of
\* them naming no registered agent, an object without the key "task", and an
\* item that is a JSON string.
RouteRecords ==
    {[shape |-> "record", agent |-> "coder", task |-> <<"compute">>],
     [shape |-> "record", agent |-> "writer", task |-> <<"describe">>],
     [shape |-> "record", agent |-> "tester", task |-> <<"test">>],
     [shape |-> "no_task", agent |-> "writer", task |-> <<>>],
     [shape |-> "string", agent |-> "", task |-> <<>>]}

\* d["agent"] and d["task"] both evaluate.
WellFormed(d) == d.shape = "record"

\* What _route can come to: the completion call fails, the text holds no
\* bracketed part, the bracketed part does not decode, or it decodes to a list.
RoutingResponses ==
    {[kind |-> k, items |-> <<>>] : k \in {"raise", "no_array", "bad_json"}}
    \cup {[kind |-> "array", items |-> q] : q \in SeqsUpTo(RouteRecords, MaxDelegations)}

RouteErrorText(kind) ==
    CASE kind = "raise" -> <<"Routing failed:", "completion failed">>
      [] kind = "no_array" -> <<"Routing failed:", "Could not parse routing response:">>
      [] OTHER -> <<"Routing failed:", "Expecting value">>

\* An output longer than the slice the context keeps.
LongOutput == [i \in 1..(CONTEXT_OUTPUT_CHARS + 1) |-> "o"]

\* What agent.run can come to: an AgentResult (output, success, error), or a
\* fault of the agent's own task loop that it does not catch.
AgentReturns ==
    {[kind |-> "result", output |-> <<"42">>, success |-> TRUE, error |-> <<>>],
     [kind |-> "result", output |-> LongOutput, success |-> TRUE, error |-> <<>>],
     [kind |-> "result", output |-> <<>>, success |-> FALSE, error |-> <<"boom">>],
     [kind |-> "result", output |-> <<"partial">>, success |-> FALSE,
      error |-> <<"Step 1 failed">>],
     [kind |-> "raise", output |-> <<>>, success |-> FALSE, error |-> <<"fault">>]}

AgentResult(agent, task, output, success, error) ==
    [agent |-> agent, task |-> task, output |-> output, success |-> success,
     error |-> error]

\* Lines 102-103: the routed text, with the context section when context is
\* not empty.
WithContext(task, ctx) ==
    IF ctx # <<>>
    THEN task \o <<"\n\n", "Context from previous steps:", "\n">> \o ctx
    ELSE task

\* Mutant: the whole output goes into the context.
ContextEntryWhole(agent, output) ==
    <<"\n", agent, "result:", "\n">> \o output \o <<"\n">>

\* Line 125: what a successful agent adds to context.
ContextEntry(agent, output) ==
    <<"\n", agent, "result:", "\n">> \o Prefix(output, CONTEXT_OUTPUT_CHARS) \o <<"\n">>

Blank(token) == token \in {"\n", "\n\n", " "}

\* str.strip on tokens.
RECURSIVE Strip(_)
Strip(text) ==
    IF text = <<>> THEN <<>>
    ELSE IF Blank(Head(text)) THEN Strip(Tail(text))
    ELSE IF Blank(text[Len(text)]) THEN Strip(SubSeq(text, 1, Len(text) - 1))
    ELSE text

\* Mutant: a record naming no registered agent is dispatched like any other.
WalkDispatchingAll(dl, k, results, ctx) ==
    IF k > Len(dl)
    THEN [stop |-> "end", k |-> k, results |-> results, task |-> <<>>]
    ELSE IF ~WellFormed(dl[k])
    THEN [stop |-> "raise", k |-> k, results |-> results, task |-> <<>>]
    ELSE [stop |-> "call", k |-> k, results |-> results,
          task |-> WithContext(dl[k].task, ctx)]

\* Mutant: a record naming no registered agent ends the loop.
WalkStoppingAtUnknown(dl, k, results, ctx) ==
    IF k > Len(dl)
    THEN [stop |-> "end", k |-> k, results |-> results, task |-> <<>>]
    ELSE IF ~WellFormed(dl[k])
    THEN [stop |-> "raise", k |-> k, results |-> results, task |-> <<>>]
    ELSE IF dl[k].agent \notin AgentNames
    THEN [stop |-> "end", k |-> k + 1,
          results |-> Append(results,
                             AgentResult(dl[k].agent, WithContext(dl[k].task, ctx), <<>>,
                                         FALSE, <<"Unknown agent:", dl[k].agent>>)),
          task |-> <<>>]
    ELSE [stop |-> "call", k |-> k, results |-> results,
          task |-> WithContext(dl[k].task, ctx)]

\* `for d in delegation` from record k on, as far as it runs without
\* awaiting: records naming no registered agent are answered on the spot
\* (lines 107-115); it stops at the agent.run it awaits, at a record whose
\* lookup raises, or at the end of the list.
RECURSIVE Walk(_, _, _, _)
Walk(dl, k, results, ctx) ==
    IF k > Len(dl)
    THEN [stop |-> "end", k |-> k, results |-> results, task |-> <<>>]
    ELSE IF ~WellFormed(dl[k])
    THEN [stop |-> "raise", k |-> k, results |-> results, task |-> <<>>]
    ELSE IF dl[k].agent \notin AgentNames
    THEN Walk(dl, k + 1,
              Append(results,
                     AgentResult(dl[k].agent, WithContext(dl[k].task, ctx), <<>>, FALSE,
                                 <<"Unknown agent:", dl[k].agent>>)),
              ctx)
    ELSE [stop |-> "call", k |-> k, results |-> results,
          task |-> WithContext(dl[k].task, ctx)]

\* Mutant: overall success asks for an AgentResult, of whatever outcome.
AnyResult(results) == results # <<>>

\* Mutant: overall success asks every agent to have succeeded.
EverySuccess(results) ==
    /\ results # <<>>
    /\ \A k \in 1..Len(results) : results[k].success

\* Lines 131-133: len(successful) > 0.
AnySuccess(results) == \E k \in 1..Len(results) : results[k].success

\* The tools property of the agent classes.
AgentTools(agent) ==
    CASE agent = "coder" -> {"code_executor", "file_manager"}
      [] agent = "researcher" -> {"web_search", "web_fetch", "file_manager"}
      [] agent = "writer" -> {"file_manager"}
      [] agent = "analyst" -> {"code_executor", "file_manager"}
      [] OTHER -> {}

\* Line 139: the tools of the registered agents among the results (a list
\* made from a set: its order is not fixed, so it is kept as the set).
ToolsOfAgents(results) ==
    UNION {AgentTools(results[k].agent) : k \in 1..Len(results)}

task_vars == <<planner_vars, step_vars, loop_vars, memory_hits, task_result, hist_vars>>

\* Lines 97-159 from record k on: up to the next await, the raise, or the
\* return with the aggregated result.
Delegate(dl, k, results, ctx) ==
    LET w == Walk(dl, k, results, ctx)
    IN /\ d_idx' = w.k
       /\ agent_results' = w.results
       /\ context' = ctx
       /\ agent_task' = w.task
       /\ IF w.stop = "call"
          THEN /\ pc' = "agent_call"
               /\ agent_runs' = Counted(agent_runs, w.k)
               /\ UNCHANGED <<orch_result, memory_saves>>
          ELSE IF w.stop = "raise"
          THEN /\ pc' = "orch_raised"
               /\ UNCHANGED <<orch_result, memory_saves, agent_runs>>
          ELSE /\ pc' = "orch_done"
               /\ orch_result' = [returned |-> TRUE,
                                  success |-> AnySuccess(w.results),
                                  output |-> Strip(ctx),
                                  agent_results |-> w.results,
                                  error |-> <<>>]
               /\ memory_saves' =
                     IF AnySuccess(w.results)
                     THEN Saved([success |-> TRUE, output |-> Strip(ctx),
                                 step_count |-> Len(w.results),
                                 tools_used |-> ToolsOfAgents(w.results)])
                     ELSE memory_saves
               /\ UNCHANGED agent_runs

InitOrchestrate ==
    /\ registry = MainRegistry
    /\ memory \in {"none", "ok", "faulty"}
    /\ logger = "ok"
    /\ pc = "orch_start"
    /\ steps = <<>>
    /\ result = NoResult
    /\ RunIdle
    /\ EvalIdle
    /\ PairIdle
    /\ delegation = <<>>
    /\ d_idx = 0
    /\ agent_task = <<>>
    /\ agent_results = <<>>
    /\ context = <<>>
    /\ orch_result = NoOrchResult
    /\ verbose \in BOOLEAN
    /\ route_calls = 0
    /\ agent_runs = <<>>

\* Lines 69-81: run up to the routing completion it awaits.
OrchestrateStart ==
    /\ pc = "orch_start"
    /\ pc' = "route"
    /\ route_calls' = route_calls + 1
    /\ UNCHANGED <<config_vars, pair_vars, eval_vars, task_vars, memory_saves, delegation, d_idx,
                   agent_task, agent_results, context, orch_result, verbose, agent_runs>>

\* _route came back (lines 161-177) and run went on (lines 81-128): a routing
\* failure returns at once; otherwise the records are printed when verbose
\* (lines 89-91, where a malformed record raises) and the loop starts.
RouteReturn ==
    /\ pc = "route"
    /\ \E resp \in RoutingResponses :
          IF resp.kind # "array"
          THEN /\ orch_result' = [returned |-> TRUE, success |-> FALSE, output |-> <<>>,
                                  agent_results |-> <<>>,
                                  error |-> RouteErrorText(resp.kind)]
               /\ pc' = "orch_done"
               /\ UNCHANGED <<delegation, d_idx, agent_task, agent_results, context,
                              agent_runs, memory_saves>>
          ELSE /\ delegation' = resp.items
               /\ IF verbose /\ \E k \in 1..Len(resp.items) : ~WellFormed(resp.items[k])
                  THEN /\ pc' = "orch_raised"
                       /\ UNCHANGED <<d_idx, agent_task, agent_results, context,
                                      orch_result, agent_runs, memory_saves>>
                  ELSE Delegate(resp.items, 1, <<>>, <<>>)
    /\ UNCHANGED <<config_vars, pair_vars, eval_vars, task_vars, verbose, route_calls>>

\* agent.run came back (lines 117-128) and the loop went on.
AgentReturn ==
    /\ pc = "agent_call"
    /\ \E r \in AgentReturns :
          IF r.kind = "raise"
          THEN /\ pc' = "orch_raised"
               /\ UNCHANGED <<d_idx, agent_task, agent_results, context, orch_result,
                              agent_runs, memory_saves>>
          ELSE LET name == delegation[d_idx].agent
                   res == AgentResult(name, agent_task, r.output, r.success, r.error)
               IN Delegate(delegation, d_idx + 1, Append(agent_results, res),
                           IF r.success THEN context \o ContextEntry(name, r.output)
                           ELSE context)
    /\ UNCHANGED <<config_vars, pair_vars, eval_vars, task_vars, delegation, verbose, route_calls>>

NextOrchestrate ==
    \/ OrchestrateStart
    \/ RouteReturn
    \/ AgentReturn

SpecOrchestrate == InitOrchestrate /\ [][NextOrchestrate]_vars

\* ---------------------------------------------------------------- claims
\* The run went through the step loop (a plan passed _validate_plan).
InStepLoop == idx >= 1

\* A tool call of the step at idx is awaited, or its judgement is.
StepInFlight == pc \in {"tool_call", "judge_call"}

\* C1. Fail-fast: once the step at plan position k has settled as failed, run
\* has returned a TaskResult with success = false whose steps end with that
\* step's record; the loop stays at position k, nothing is resolved or in
\* flight, and no tool has been invoked for a position after k.
C1_FailFast ==
    \A k \in 1..Len(step_logs) :
        (InStepLoop /\ ~step_logs[k].success) =>
            /\ k = Len(step_logs)
            /\ idx = k
            /\ pc = "done"
            /\ inflight = 0
            /\ step_input = <<>>
            /\ \A p \in DOMAIN invoked : p <= k
            /\ task_result.returned
            /\ ~task_result.success
            /\ task_result.steps = step_logs
            /\ task_result.steps[Len(task_result.steps)] = step_logs[k]

\* A two-step plan whose first step exhausted its attempts: the second step
\* was never invoked.
C1_Witness ==
    /\ pc = "done"
    /\ Len(steps) = 2
    /\ Len(step_logs) = 1
    /\ ~step_logs[1].success
    /\ step_logs[1].attempts = MAX_RETRIES
    /\ ~task_result.success
    /\ DOMAIN invoked = {1}

\* C2. Retry budget: no step's tool is invoked more than MAX_RETRIES times;
\* the attempt in flight is the number of invocations so far; and a step
\* that settled as failed with every one of its invocations evaluated was
\* invoked exactly MAX_RETRIES times, records attempts = MAX_RETRIES, and
\* the TaskResult has success = false.
C2_RetryBudget ==
    /\ \A p \in DOMAIN invoked : invoked[p] <= MAX_RETRIES
    /\ StepInFlight => Count(invoked, idx) = attempt
    /\ \A k \in 1..Len(step_logs) :
          (/\ InStepLoop
           /\ ~step_logs[k].success
           /\ Count(invoked, k) > 0
           /\ Count(evaluated, k) = Count(invoked, k)) =>
              /\ Count(invoked, k) = MAX_RETRIES
              /\ step_logs[k].attempts = MAX_RETRIES
              /\ task_result.returned
              /\ ~task_result.success

\* A step whose three attempts all timed out (exit status -1).
C2_Witness ==
    /\ pc = "done"
    /\ InStepLoop
    /\ Len(step_logs) = idx
    /\ ~step_logs[idx].success
    /\ step_logs[idx].error = <<"Timeout">>
    /\ Count(invoked, idx) = MAX_RETRIES
    /\ Count(evaluated, idx) = MAX_RETRIES
    /\ step_logs[idx].attempts = MAX_RETRIES

\* C3. When run has returned from the step loop and every settled step was
\* judged successful with a single invocation of its tool, the TaskResult has
\* success = true and its steps hold exactly one record per plan step, in
\* plan order, each with attempts = 1.
C3_AllFirstAttempt ==
    (/\ pc = "done"
     /\ InStepLoop
     /\ \A k \in 1..Len(step_logs) :
           step_logs[k].success /\ Count(invoked, k) = 1) =>
        /\ task_result.success
        /\ task_result.steps = step_logs
        /\ Len(step_logs) = Len(steps)
        /\ \A i \in 1..Len(steps) :
              /\ step_logs[i].step_id = steps[i].id
              /\ step_logs[i].tool = steps[i].tool
              /\ step_logs[i].attempts = 1
              /\ Count(invoked, i) = 1

\* Both steps of a two-step plan succeeded at once.
C3_Witness ==
    /\ pc = "done"
    /\ Len(steps) = 2
    /\ task_result.success
    /\ Len(task_result.steps) = 2
    /\ \A i \in 1..2 : step_logs[i].attempts = 1 /\ Count(invoked, i) = 1

\* C4. Steps run one after another: at most one tool invocation is in
\* flight; while the step at idx is in flight exactly the positions before
\* it have settled, all of them successfully; and a tool has been invoked
\* for a position only when every earlier position has settled.
C4_Sequential ==
    /\ inflight \in {0, 1}
    /\ StepInFlight => inflight = 1 /\ Len(step_logs) = idx - 1
    /\ \A p \in DOMAIN invoked :
          p >= 1 =>
             /\ p <= Len(step_logs) + 1
             /\ p = Len(step_logs) + 1 => StepInFlight /\ idx = p
             /\ \A q \in 1..(p - 1) : step_logs[q].success

\* The second step's first attempt is in flight after the first settled.
C4_Witness ==
    /\ pc = "tool_call"
    /\ idx = 2
    /\ attempt = 1
    /\ inflight = 1
    /\ Len(step_logs) = 1
    /\ step_logs[1].success

\* The Plan invariant of the specification, with each tool's required input
\* keys as the tool declares them.
PlanInvariant(plan, reg) ==
    /\ Len(plan) >= 1
    /\ Len(plan) <= MAX_PLAN_STEPS
    /\ \A i \in 1..Len(plan) :
          /\ plan[i].tool \in reg
          /\ ToolRequired(plan[i].tool) \subseteq DOMAIN plan[i].input
          /\ \A j \in 1..Len(plan[i].depends_on) :
                /\ plan[i].depends_on[j] \in StepIds(plan)
                /\ plan[i].depends_on[j] < plan[i].id

\* C5. Every plan whose steps run begins to execute satisfies the Plan
\* invariant, and no tool is invoked for a plan that violates it.
C5_ExecutedPlanInvariant ==
    (InStepLoop \/ \E p \in DOMAIN invoked : p >= 1) => PlanInvariant(steps, registry)

\* A step has a dependency id that is absent from the plan or not smaller
\* than the step's own id.
BadDep(step, ids) ==
    \E j \in 1..Len(step.depends_on) :
        step.depends_on[j] \notin ids \/ step.depends_on[j] >= step.id

HasBadDep(plan) == \E i \in 1..Len(plan) : BadDep(plan[i], StepIds(plan))

\* The first position of the plan whose step has such a dependency.
FirstBadDep(plan) ==
    CHOOSE i \in 1..Len(plan) :
        /\ BadDep(plan[i], StepIds(plan))
        /\ \A h \in 1..(i - 1) : ~BadDep(plan[h], StepIds(plan))

\* The validator's tool and key checks pass for the step.
ToolKeyOk(step, reg) ==
    step.tool \in reg /\ ValidatorKey(step.tool) \subseteq DOMAIN step.input

\* The validator's checks other than the dependency checks pass.
OtherChecksPass(plan, reg) ==
    /\ Len(plan) >= 1
    /\ Len(plan) <= MAX_PLAN_STEPS
    /\ \A i \in 1..Len(plan) : ToolKeyOk(plan[i], reg)

DepKinds == {"missing_dep", "circular_dep"}

\* C6 as stated: every plan with a bad dependency is rejected with an error
\* naming a step that has one, and a plan without one that passes the other
\* checks gets no error.
C6_AsStated ==
    pc = "validated" =>
        /\ HasBadDep(steps) =>
              /\ validation_error # NoError
              /\ \E i \in 1..Len(steps) :
                    /\ BadDep(steps[i], StepIds(steps))
                    /\ steps[i].id = validation_error.step
        /\ (~HasBadDep(steps) /\ OtherChecksPass(steps, registry)) =>
              validation_error = NoError

\* C6. The validator rejects every plan in which some step has a bad
\* dependency. The error is a dependency error naming the first such step,
\* with the offending id, when the plan is within the maximum length and
\* every step up to and including that one passes the tool and key checks;
\* a plan without a bad dependency that passes the other checks gets no error.
C6_DependencyRejection ==
    pc = "validated" =>
        /\ HasBadDep(steps) => validation_error # NoError
        /\ (/\ HasBadDep(steps)
            /\ Len(steps) <= MAX_PLAN_STEPS
            /\ \A h \in 1..FirstBadDep(steps) : ToolKeyOk(steps[h], registry)) =>
              LET s == steps[FirstBadDep(steps)]
              IN /\ validation_error.kind \in DepKinds
                 /\ validation_error.step = s.id
                 /\ \E j \in 1..Len(s.depends_on) :
                       /\ s.depends_on[j] = validation_error.dep
                       /\ (validation_error.dep \notin StepIds(steps)
                              \/ validation_error.dep >= s.id)
        /\ (~HasBadDep(steps) /\ OtherChecksPass(steps, registry)) =>
              validation_error = NoError

\* The scenario of the specification: step 2 of a two-step plan depends on
\* itself and the error names step 2.
C6_Witness ==
    /\ pc = "validated"
    /\ Len(steps) = 2
    /\ steps[1].id = 1
    /\ steps[2].id = 2
    /\ steps[2].depends_on = <<2>>
    /\ validation_error = [kind |-> "circular_dep", step |-> 2, dep |-> 2]

\* The output recorded for step id n by the first m settled steps: that of
\* the latest successful record with that id, the empty text without one.
SettledOutput(n, m) ==
    LET hits == {i \in 1..m : step_logs[i].step_id = n /\ step_logs[i].success}
    IN IF hits = {} THEN <<>>
       ELSE step_logs[CHOOSE i \in hits : \A h \in hits : h <= i].output

\* The text with each placeholder replaced by the output settled for it.
Expand(v, m) ==
    Flatten([i \in 1..Len(v) |->
        IF IsPlaceholder(v[i]) THEN SettledOutput(PlaceholderId[v[i]], m) ELSE <<v[i]>>])

\* C7. When the first attempt of a step is dispatched, every input value is
\* the plan's value with each placeholder replaced by the output of the
\* step of that id if it has settled successfully, and by the empty text
\* otherwise; the replacement is literal; and resolution always goes through.
C7_PlaceholderSubstitution ==
    /\ (pc = "tool_call" /\ attempt = 1) =>
          /\ DOMAIN step_input = DOMAIN steps[idx].input
          /\ \A key \in DOMAIN step_input :
                step_input[key] = Expand(steps[idx].input[key], idx - 1)
    /\ pc = "exec" => ENABLED StepBegin

\* Step 2 refers to step 1, whose output holds a placeholder itself, and to
\* step 3, which the plan does not have.
C7_Witness ==
    /\ pc = "tool_call"
    /\ attempt = 1
    /\ idx = 2
    /\ steps[2].input = [path |-> <<"{{step_1_output}}", "and", "{{step_3_output}}">>]
    /\ step_logs[1].output = <<"compile(", "{{step_2_output}}">>
    /\ step_input = [path |-> <<"compile(", "{{step_2_output}}", "and">>]

\* The code matches a deny-list signature.
Denied(code) == \E i \in 1..Len(BLACKLIST) : Contains(code, BLACKLIST[i])

\* The code of the step at position k as it is resolved when the step begins.
ResolvedCode(k) == Expand(CodeOf(steps[k].input), k - 1)

\* C8. A code step whose resolved code matches a deny-list signature never
\* has its tool in flight; once it has settled, its record is a failure with
\* a safety-block error and attempts = 1, its tool was invoked zero times,
\* the evaluator was not consulted, and the task has failed at that step.
C8_SafetyBlock ==
    /\ (StepInFlight /\ steps[idx].tool = "code_executor") => ~Denied(ResolvedCode(idx))
    /\ \A k \in 1..Len(step_logs) :
          (/\ InStepLoop
           /\ steps[k].tool = "code_executor"
           /\ Denied(ResolvedCode(k))) =>
              /\ ~step_logs[k].success
              /\ Prefix(step_logs[k].error, 1) = <<"Safety block:">>
              /\ step_logs[k].attempts = 1
              /\ Count(invoked, k) = 0
              /\ Count(evaluated, k) = 0
              /\ k = Len(step_logs)
              /\ pc = "done"
              /\ ~task_result.success

\* The code of step 2 becomes a denied one through the output of step 1.
C8_Witness ==
    /\ pc = "done"
    /\ Len(step_logs) = 2
    /\ step_logs[1].success
    /\ ~Denied(CodeOf(steps[2].input))
    /\ Denied(ResolvedCode(2))
    /\ Prefix(step_logs[2].error, 1) = <<"Safety block:">>
    /\ Count(invoked, 2) = 0

\* C9. Every dispatch to the code tool, retries included, has the exact code
\* being dispatched checked by the safety gate, and the gate allows it.
C9_GateBeforeEveryDispatch ==
    (pc = "tool_call" /\ steps[idx].tool = "code_executor") =>
        /\ checked_code = CodeOf(step_input)
        /\ validate_code(CodeOf(step_input)).allowed

\* C10. Planner.plan never returns an empty plan: when run goes on to
\* re-plan, the plan it validated, the one Planner.plan returned, has steps.
C10_PlanNeverEmpty ==
    pc \in {"replan_fast", "replan_react"} =>
        steps # <<>> /\ validation_error.kind # "empty"

\* The re-plan of run is awaiting a completion.
ReplanPcs == {"replan_fast", "replan_react"}

\* Planner.plan is awaiting a completion.
PlanPcs == {"classify", "specialized", "fast", "react"}

\* C11. The re-plan is entered only from a first plan that fails validation,
\* and at its generic stage; it keeps the rejected plan while it runs its
\* stages once (generic, at most two completions, then reasoning); it is
\* left only into execution of a plan that passes validation, with no step
\* run yet, or into a failed TaskResult with a re-planning or validation
\* error and no step run; and once execution or the return is reached the
\* plan never changes and no planning stage is entered again.
C11_OneReplan ==
    [][/\ (pc' \in ReplanPcs /\ pc \notin ReplanPcs) =>
              /\ pc \in PlanPcs
              /\ pc' = "replan_fast"
              /\ plan_attempt' = 0
              /\ validate_plan(steps', registry) # NoError
       /\ (pc \in ReplanPcs /\ pc' \in ReplanPcs) =>
              /\ steps' = steps
              /\ pc = "replan_fast"
              /\ \/ pc' = "replan_fast" /\ plan_attempt = 0 /\ plan_attempt' = 1
                 \/ pc' = "replan_react"
       /\ (pc \in ReplanPcs /\ pc' \notin ReplanPcs) =>
              \/ /\ pc' = "exec"
                 /\ validate_plan(steps', registry) = NoError
                 /\ idx' = 1
                 /\ step_logs' = <<>>
                 /\ ~task_result'.returned
              \/ /\ pc' = "done"
                 /\ task_result'.returned
                 /\ ~task_result'.success
                 /\ task_result'.steps = <<>>
                 /\ task_result'.error[1] \in {"Plan validation failed after retry:",
                                               "Re-planning failed:"}
                 /\ step_logs' = <<>>
                 /\ idx' = 0
                 /\ \A p \in DOMAIN invoked' : p = 0
       /\ pc \in {"exec", "tool_call", "judge_call", "done"} =>
              /\ steps' = steps
              /\ pc' \in {"exec", "tool_call", "judge_call", "done"}
      ]_vars

\* The re-plan was invalid as well: the task failed with no step run.
C11_Witness ==
    /\ pc = "done"
    /\ task_result.returned
    /\ Len(task_result.error) = 2
    /\ task_result.error[1] = "Plan validation failed after retry:"
    /\ steps # <<>>
    /\ step_logs = <<>>

\* The hard-failure exit status.
HardFailure(r) == r.exit_code = -1

\* A non-zero exit status other than the hard failure, with error text.
ErrorFailure(r) == r.exit_code \notin {0, -1} /\ r.error # <<>>

\* The error text cut to the length the retry hint keeps.
TruncatedError(r) ==
    IF Len(r.error) > ERROR_HINT_CHARS THEN SubSeq(r.error, 1, ERROR_HINT_CHARS)
    ELSE r.error

\* C12. For a hard-failure result and for a result with a non-zero exit
\* status and error text, no completion call is awaited and evaluate does
\* not raise; every evaluation classifies the result as a failure, with
\* quality 0.0 for the hard failure and with quality 0.1 and a retry hint
\* holding the truncated error text for the other, however often the same
\* result is evaluated.
C12_FastPath ==
    /\ (HardFailure(result) \/ ErrorFailure(result)) =>
          pc \notin {"completion_call", "evaluate_raised"}
    /\ (eval_count >= 1 /\ HardFailure(result)) =>
          /\ ~eval_result.success
          /\ eval_result.quality_score = 0
    /\ (eval_count >= 1 /\ ErrorFailure(result)) =>
          /\ ~eval_result.success
          /\ eval_result.quality_score = 10
          /\ eval_result.retry_hint = <<"Fix this error:">> \o TruncatedError(result)

\* A result with a long error text, evaluated twice: the hint holds the first
\* ERROR_HINT_CHARS tokens of it.
C12_Witness ==
    /\ pc = "evaluated"
    /\ eval_count = 2
    /\ result.exit_code = 1
    /\ Len(result.error) = ERROR_HINT_CHARS + 1
    /\ Len(eval_result.retry_hint) = ERROR_HINT_CHARS + 1
    /\ ~eval_result.success

\* Exit status 0 with output and no error text.
CleanSuccess(r) == r.exit_code = 0 /\ r.output # <<>> /\ r.error = <<>>

\* C13. A step result with exit status 0, output and no error text is marked
\* successful by the evaluator's fast path: the judged completion is not
\* awaited for it.
C13_FastSuccess ==
    pc = "judge_call" => ~CleanSuccess(result)

\* Quality scores lie in [0, 1] (hundredths).
InUnit(q) == q \in 0..100

\* C14. Every quality score is within [0,1]: the EvalResult of every
\* evaluator path (fast path for every tool result, parsed judged response
\* with any returned number, lexical fallback, evaluator unavailable), the
\* quality of every step record, and the quality of the TaskResult.
C14_QualityInUnit ==
    /\ \A r \in ToolReturns : InUnit(FastPath(r).eval.quality_score)
    /\ \A j \in JudgeResponses :
          /\ InUnit(ParseJudgement(j).quality_score)
          /\ InUnit(EvaluatorUnavailable(result).quality_score)
    /\ \A k \in 1..Len(step_logs) : InUnit(step_logs[k].quality_score)
    /\ InUnit(task_result.quality_score)
    /\ \A k \in 1..Len(task_result.steps) : InUnit(task_result.steps[k].quality_score)

\* A run that returned success after a judged response of 1.5 was taken for
\* its only step: the step and the task carry quality 1.0.
C14_Witness ==
    /\ pc = "done"
    /\ task_result.returned
    /\ task_result.success
    /\ Len(task_result.steps) = 1
    /\ task_result.steps[1].quality_score = 100
    /\ task_result.quality_score = 100
    /\ \E j \in JudgeResponses : j.kind = "json" /\ j.quality_score > 100 /\ j.success

\* Positions of the successful AgentResults of a list.
Successful(results) == {k \in 1..Len(results) : results[k].success}

\* C15. The OrchestratorResult returned has success = true if and only if
\* at least one AgentResult in its agent_results has success = true,
\* whatever the delegation records and the agents' outcomes were.
C15_SuccessIffAnyAgent ==
    orch_result.returned =>
        (orch_result.success <=> Cardinality(Successful(orch_result.agent_results)) >= 1)

\* Two agents ran, the first failed and the second succeeded: overall success.
C15_Witness ==
    /\ pc = "orch_done"
    /\ orch_result.returned
    /\ Len(orch_result.agent_results) = 2
    /\ ~orch_result.agent_results[1].success
    /\ orch_result.agent_results[2].success
    /\ orch_result.success

\* The decoded routing output is an array of {agent, task} records.
DelegationArray(dl) == \A k \in 1..Len(dl) : WellFormed(dl[k])

\* The immediate routing failure: a returned failure with a routing error,
\* no agent results, no agent invoked and one routing completion.
RoutingFailed ==
    /\ pc = "orch_done"
    /\ orch_result.returned
    /\ ~orch_result.success
    /\ orch_result.agent_results = <<>>
    /\ orch_result.error # <<>>
    /\ orch_result.error[1] = "Routing failed:"
    /\ agent_runs = <<>>
    /\ route_calls = 1

\* C16. When the routing completion comes back, the run either goes on with
\* a delegation array (every item an {agent, task} record), or has failed at
\* once: no agent invoked, routing not retried, a failure with success =
\* false, empty agent_results and a routing error.
C16_RoutingFailsAtOnce ==
    [][pc = "route" =>
          \/ (pc' \in {"agent_call", "orch_done"} /\ orch_result'.error = <<>>
              /\ DelegationArray(delegation') /\ route_calls' = 1)
          \/ RoutingFailed']_vars

\* The context buffer the successful results of a list add up to.
RECURSIVE ContextOf(_)
ContextOf(results) ==
    IF results = <<>> THEN <<>>
    ELSE LET last == results[Len(results)]
             before == ContextOf(SubSeq(results, 1, Len(results) - 1))
         IN IF last.success
            THEN before \o <<"\n", last.agent, "result:", "\n">>
                        \o (IF Len(last.output) > CONTEXT_OUTPUT_CHARS
                            THEN SubSeq(last.output, 1, CONTEXT_OUTPUT_CHARS)
                            ELSE last.output)
                        \o <<"\n">>
            ELSE before

\* The results of a list that came from registered agents.
RECURSIVE FromAgents(_)
FromAgents(results) ==
    IF results = <<>> THEN <<>>
    ELSE IF Head(results).agent \in AgentNames
    THEN <<Head(results)>> \o FromAgents(Tail(results))
    ELSE FromAgents(Tail(results))

\* C17. A delegation record naming an agent outside the agent set has, once
\* the loop is past it, a failed AgentResult in its place: success = false,
\* no output, the error naming the unknown agent; no agent.run call was made
\* for it, and the context buffer is what the registered agents' results
\* alone add up to.
C17_UnknownAgent ==
    /\ Len(agent_results) <= Len(delegation)
    /\ \A k \in 1..Len(delegation) :
          (WellFormed(delegation[k]) /\ delegation[k].agent \notin AgentNames) =>
              /\ Count(agent_runs, k) = 0
              /\ (k < d_idx => k <= Len(agent_results))
              /\ (k <= Len(agent_results) =>
                    /\ agent_results[k].agent = delegation[k].agent
                    /\ ~agent_results[k].success
                    /\ agent_results[k].output = <<>>
                    /\ agent_results[k].error = <<"Unknown agent:", delegation[k].agent>>)
    /\ context = ContextOf(FromAgents(agent_results))

\* coder succeeded, then a record named the unknown agent "tester": its
\* failed result is returned, only coder was invoked, and the context is
\* coder's entry.
C17_Witness ==
    /\ pc = "orch_done"
    /\ Len(delegation) = 2
    /\ delegation[2].agent = "tester"
    /\ Len(orch_result.agent_results) = 2
    /\ orch_result.agent_results[1].success
    /\ orch_result.agent_results[2].error = <<"Unknown agent:", "tester">>
    /\ DOMAIN agent_runs = {1}
    /\ context = <<"\n", "coder", "result:", "\n", "42", "\n">>

\* The text record k is dispatched with when `earlier` are the results of
\* the records before it.
Threaded(k, earlier) ==
    IF Successful(earlier) # {}
    THEN delegation[k].task \o <<"\n\n", "Context from previous steps:", "\n">>
                            \o ContextOf(earlier)
    ELSE delegation[k].task

\* C18. The sub-task text dispatched to the agent of record i is its routed
\* task text followed by "Context from previous steps" and the truncated
\* outputs of exactly the earlier agents that succeeded, in delegation order;
\* with no earlier success it is the routed text alone; a failed agent's
\* output is in no dispatched text. The same holds of the text every
\* registered agent's AgentResult reports.
C18_ContextThreading ==
    /\ pc = "agent_call" =>
          /\ Len(agent_results) = d_idx - 1
          /\ agent_task = Threaded(d_idx, agent_results)
          /\ \A k \in 1..Len(agent_results) :
                (~agent_results[k].success /\ agent_results[k].output # <<>>) =>
                    ~Contains(agent_task, agent_results[k].output)
    /\ \A k \in 1..Len(agent_results) :
          agent_results[k].agent \in AgentNames =>
              agent_results[k].task = Threaded(k, SubSeq(agent_results, 1, k - 1))

\* Routing [coder, writer], coder succeeded with an output longer than the
\* slice: writer's text is its routed text, the section header, and coder's
\* entry with the output cut to CONTEXT_OUTPUT_CHARS.
C18_Witness ==
    /\ pc = "agent_call"
    /\ d_idx = 2
    /\ delegation[1].agent = "coder"
    /\ delegation[2].agent = "writer"
    /\ agent_results[1].success
    /\ Len(agent_results[1].output) = CONTEXT_OUTPUT_CHARS + 1
    /\ SubSeq(agent_task, 1, 8) = <<"describe", "\n\n", "Context from previous steps:",
                                    "\n", "\n", "coder", "result:", "\n">>
    /\ Len(agent_task) = 8 + CONTEXT_OUTPUT_CHARS + 1

\* Every record of a list reports success.
AllSucceeded(logs) == \A k \in 1..Len(logs) : logs[k].success

\* C19. A memory store whose calls raise is never fatal. With a faulty store
\* (the lookup at task start and the save at task end both raise) the run
\* counts no memory hits and stores nothing, exactly as the run without a
\* store; run returns its TaskResult, and the TaskResult's success, output,
\* steps and error are the same function of the plan and the step records
\* whatever the store is.
C19_MemoryNeverFatal ==
    /\ memory \in {"none", "faulty"} => (memory_hits = 0 /\ memory_saves = <<>>)
    /\ pc = "done" =>
          /\ task_result.returned
          /\ task_result.steps = step_logs
          /\ task_result.success => task_result.error = <<>>
          /\ task_result.success => AllSucceeded(step_logs)
          /\ (~task_result.success /\ step_logs # <<>>) =>
                /\ ~step_logs[Len(step_logs)].success
                /\ AllSucceeded(SubSeq(step_logs, 1, Len(step_logs) - 1))
          /\ task_result.output =
                IF Count(invoked, 0) > 0 /\ idx = 0 /\ step_logs # <<>>
                THEN step_logs[1].output
                ELSE last_output

\* A two-step run with a faulty store that returned success: the lookup and
\* the save both raised, nothing was counted or stored.
C19_Witness ==
    /\ memory = "faulty"
    /\ pc = "done"
    /\ task_result.returned
    /\ task_result.success
    /\ Len(task_result.steps) = 2
    /\ memory_hits = 0
    /\ memory_saves = <<>>

\* C20. A fault of the log sink never fails task execution: run does not end
\* by raising.
C20_LogFaultTolerated ==
    pc # "raised"

\* The record of a step whose tool invocation raised.
Crashed(log) == Len(log.error) >= 3 /\ log.error[1] = "Step" /\ log.error[3] = "crashed:"

\* The fault texts a tool invocation can raise with.
FaultTexts == {r.error : r \in {t \in ToolReturns : t.kind = "raise"}}

\* C21. A step whose tool invocation raised on attempt a is settled at once
\* as failed: its record is the last one and the run is over, the error
\* carries the fault text, attempts equals a, which is the number of tool
\* invocations made for the step (none followed the fault), and the
\* evaluator was consulted for the a - 1 earlier attempts only.
C21_FaultSettlesStep ==
    \A k \in 1..Len(step_logs) :
        Crashed(step_logs[k]) =>
            /\ ~step_logs[k].success
            /\ k = Len(step_logs)
            /\ pc = "done"
            /\ \E f \in FaultTexts : step_logs[k].error = SubSeq(step_logs[k].error, 1, 3) \o f
            /\ step_logs[k].attempts \in 1..MAX_RETRIES
            /\ Count(invoked, k) = step_logs[k].attempts
            /\ Count(evaluated, k) = step_logs[k].attempts - 1
            /\ task_result.returned /\ ~task_result.success

\* The tool of the first step raised on its second attempt.
C21_Witness ==
    /\ pc = "done"
    /\ Len(step_logs) = 1
    /\ Crashed(step_logs[1])
    /\ step_logs[1].attempts = 2
    /\ Count(invoked, 1) = 2
    /\ Count(evaluated, 1) = 1

\* The classifier completions that are failures: the call failed, the text
\* held no object, or the type is outside the closed set.
FailedClassifications ==
    {r \in ClassifierResponses : r.kind # "json" \/ r.type \notin TaskTypes}

\* C22. Classifier failure is never fatal: every failed classification is
\* taken as 'mixed', and the step that receives the classifier's answer
\* always goes on to the first planning stage with a category of the closed
\* set, 'mixed' being among the categories it can go on with; it returns
\* nothing to the caller and raises nothing.
C22_ClassifierNeverFatal ==
    [][pc = "classify" =>
          /\ FailedClassifications # {}
          /\ \A r \in FailedClassifications : classify(r) = "mixed"
          /\ task_type' \in {classify(r) : r \in ClassifierResponses}
          /\ task_type' \in TaskTypes
          /\ pc' \in {"specialized", "react"}
          /\ ~task_result'.returned
          /\ plan_attempt' = 0]_vars

\* The classification failed (no completion of the pool names 'mixed') and
\* the specialized stage is about to be asked for a plan.
C22_Witness ==
    /\ pc = "specialized"
    /\ task_type = "mixed"
    /\ plan_attempt = 0
    /\ \A r \in ClassifierResponses : classify(r) = "mixed" => r \in FailedClassifications

\* run took the writing fast path: the text-generation tool was invoked
\* before any planning (position 0 of the invocation history).
TookFastPath == Count(invoked, 0) >= 1

\* C23. A run that takes the writing fast path (writing task, text_writer
\* registered) bypasses planning entirely and invokes the tool exactly once
\* as a single step: no classification or planning completion is awaited,
\* no plan exists, and the result returned has that one step. A run that
\* does not take it (the tool is not registered) starts with planning.
C23_WritingFastPath ==
    /\ TookFastPath =>
          /\ Count(invoked, 0) = 1
          /\ pc \in {"writing_call", "done"}
          /\ task_type = ""
          /\ steps = <<>>
          /\ DOMAIN invoked = {0}
          /\ pc = "done" =>
                /\ task_result.returned
                /\ Len(task_result.steps) = 1
                /\ task_result.steps[1].tool = "text_writer"
    /\ "text_writer" \notin registry => ~TookFastPath

\* C24. The code tool is never invoked with outbound network targets that
\* include a private or loopback address: a code step asking for such
\* targets is rejected by the safety gate before its tool call.
C24_PrivateTargetsRejected ==
    (pc = "tool_call" /\ steps[idx].tool = "code_executor") =>
        validate_domains(DomainsOf(step_input)).allowed

\* C25. With a working memory store, a run whose plan succeeded has
\* persisted exactly one outcome record when it returns: final output,
\* success = true, step count, tools used and aggregate quality score.
C25_OutcomePersisted ==
    (memory = "ok" /\ pc = "done" /\ task_result.success /\ steps # <<>>) =>
        /\ Len(memory_saves) = 1
        /\ memory_saves[1].success
        /\ memory_saves[1].output = task_result.output
        /\ memory_saves[1].step_count = Len(task_result.steps)
        /\ memory_saves[1].tools_used = tools_used
        /\ memory_saves[1].quality_score = task_result.quality_score

\* The output of the last record before position k (empty if there is none).
OutputBefore(logs, k) == IF k > 1 THEN logs[k - 1].output ELSE <<>>

\* C26. When the executed plan fails at the step at position k, the
\* TaskResult's output is the output of the last step that settled
\* successfully before k (all of the steps before k; the empty text if k is
\* the first), not the output of the failing step's attempts, and its error
\* is the failing step's id followed by its error text.
C26_FailureReport ==
    (InStepLoop /\ pc = "done" /\ step_logs # <<>>
     /\ ~step_logs[Len(step_logs)].success) =>
        LET k == Len(step_logs)
        IN /\ \A j \in 1..(k - 1) : step_logs[j].success
           /\ ~task_result.success
           /\ task_result.output = OutputBefore(step_logs, k)
           /\ task_result.error =
                 <<"Step", IdText(steps[k].id), "failed:">> \o step_logs[k].error
           /\ step_logs[k].step_id = steps[k].id

\* Step 1 succeeded with "300"; step 2 produced another output on its
\* attempts and exhausted them: the task output is "300".
C26_Witness ==
    /\ pc = "done"
    /\ Len(step_logs) = 2
    /\ step_logs[1].success
    /\ ~step_logs[2].success
    /\ step_logs[2].attempts = MAX_RETRIES
    /\ step_logs[2].output # <<>>
    /\ step_logs[2].output # step_logs[1].output
    /\ task_result.output = <<"300">>
    /\ task_result.error[1] = "Step"

\* The check a step fails first, in the order tool registered, required key
\* present, dependencies: 1, 2, 3, or 0 when it passes all of them.
FailedCheck(step, plan, reg) ==
    IF step.tool \notin reg THEN 1
    ELSE IF ~(ValidatorKey(step.tool) \subseteq DOMAIN step.input) THEN 2
    ELSE IF BadDep(step, StepIds(plan)) THEN 3
    ELSE 0

CheckKinds(c) ==
    CASE c = 1 -> {"tool_not_found"} [] c = 2 -> {"missing_key"} [] c = 3 -> DepKinds
      [] OTHER -> {"none"}

\* The earliest check any step of the plan fails (0: none does).
EarliestCheck(plan, reg) ==
    IF \E i \in 1..Len(plan) : FailedCheck(plan[i], plan, reg) = 1 THEN 1
    ELSE IF \E i \in 1..Len(plan) : FailedCheck(plan[i], plan, reg) = 2 THEN 2
    ELSE IF \E i \in 1..Len(plan) : FailedCheck(plan[i], plan, reg) = 3 THEN 3
    ELSE 0

\* C27 as stated: after the emptiness and length checks, the violation
\* reported is one of the earliest check that any step of the plan fails.
C27_AsStated ==
    pc = "validated" =>
        IF steps = <<>> THEN validation_error.kind = "empty"
        ELSE IF Len(steps) > MAX_PLAN_STEPS THEN validation_error.kind = "too_long"
        ELSE validation_error.kind \in CheckKinds(EarliestCheck(steps, registry))

\* C27. The validator reports only the first violation in a fixed order:
\* plan non-empty, then step count within the maximum, then, step by step
\* in plan order, the step's tool registered, its required input key
\* present, its dependency ids present and strictly smaller. The violation
\* reported is the first failed check of the first step that fails any.
C27_FirstViolation ==
    pc = "validated" =>
        IF steps = <<>> THEN validation_error.kind = "empty"
        ELSE IF Len(steps) > MAX_PLAN_STEPS THEN validation_error.kind = "too_long"
        ELSE IF \A i \in 1..Len(steps) : FailedCheck(steps[i], steps, registry) = 0
        THEN validation_error = NoError
        ELSE LET i == CHOOSE x \in 1..Len(steps) :
                          /\ FailedCheck(steps[x], steps, registry) # 0
                          /\ \A h \in 1..(x - 1) : FailedCheck(steps[h], steps, registry) = 0
             IN /\ validation_error.kind
                      \in CheckKinds(FailedCheck(steps[i], steps, registry))
                /\ validation_error.step = steps[i].id

\* Step 1 has a bad dependency and step 2 names an unregistered tool: the
\* dependency error of step 1 is the one reported.
C27_Witness ==
    /\ pc = "validated"
    /\ Len(steps) = 2
    /\ FailedCheck(steps[1], steps, registry) = 3
    /\ FailedCheck(steps[2], steps, registry) = 1
    /\ steps[1].id # steps[2].id
    /\ validation_error.kind \in DepKinds
    /\ validation_error.step = steps[1].id

\* The successful records among the first k.
RECURSIVE Successes(_, _)
Successes(logs, k) ==
    IF k = 0 THEN 0
    ELSE Successes(logs, k - 1) + (IF logs[k].success THEN 1 ELSE 0)

\* C28. Every plan that passed validation and is executed has step ids that
\* are positive and pairwise distinct, so while its steps run the step-output
\* map holds one entry for each step that settled successfully: no entry has
\* been overwritten by another step with the same id.
C28_DistinctIds ==
    (InStepLoop /\ pc \in {"exec", "tool_call", "judge_call"}) =>
        /\ \A i \in 1..Len(steps) : steps[i].id > 0
        /\ \A i, j \in 1..Len(steps) : i # j => steps[i].id # steps[j].id
        /\ Cardinality(step_outputs) = Successes(step_logs, Len(step_logs))

\* C29. Forward order: whenever an attempt of the step at position idx of a
\* validated plan is in flight, every step named in its depends_on stands
\* earlier in the plan and has settled successfully.
C29_ForwardOrder ==
    (InStepLoop /\ StepInFlight) =>
        \A j \in 1..Len(steps[idx].depends_on) :
            \E k \in 1..(idx - 1) :
                /\ k <= Len(step_logs)
                /\ steps[k].id = steps[idx].depends_on[j]
                /\ step_logs[k].success

\* The non-empty retry hints an evaluation can carry.
RetryHints ==
    ({<<"Fix the code to avoid timeout or system errors.">>,
      <<"Review the output and fix the code.">>}
     \cup {<<"Fix this error:">> \o Prefix(r.error, ERROR_HINT_CHARS) : r \in ToolReturns}
     \cup {j.retry_hint : j \in JudgeResponses}) \ {<<>>}

\* next is the input prev with hint h written as a comment line above its code.
Hinted(prev, h, next) ==
    /\ DOMAIN next = DOMAIN prev \cup {"code"}
    /\ next["code"] = <<"# Previous failed:">> \o h \o <<"\n">> \o CodeOf(prev)
    /\ \A k \in DOMAIN prev \ {"code"} : next[k] = prev[k]

\* C30. Retry-hint injection changes only the retried attempt. When another
\* attempt of the step at idx follows a failed one, the plan, the position
\* and the recorded outputs (hence the resolved step) are unchanged; on a
\* code_executor step the next attempt's input is the previous attempt's
\* input, or that input with a non-empty hint as a comment line above its
\* code (always so after a failure decided without the judge, whose hint is
\* never empty); on any other tool the input of every attempt is the
\* resolved input of attempt 1.
C30_HintOnlyRetried ==
    [][(attempt >= 1 /\ attempt' = attempt + 1) =>
          /\ steps' = steps
          /\ idx' = idx
          /\ step_outputs' = step_outputs
          /\ IF steps[idx].tool = "code_executor"
             THEN \/ pc = "judge_call" /\ step_input' = step_input
                  \/ \E h \in RetryHints : Hinted(step_input, h, step_input')
             ELSE /\ step_input' = step_input
                  /\ step_input = ResolveInput(steps[idx].input, step_outputs)
      ]_vars

\* The second attempt of a code step runs with the hint above its code, and
\* the plan step still holds the code as planned.
C30_Witness ==
    /\ pc = "tool_call"
    /\ attempt = 2
    /\ steps[idx].tool = "code_executor"
    /\ step_input["code"][1] = "# Previous failed:"
    /\ steps[idx].input["code"][1] # "# Previous failed:"
    /\ ResolveInput(steps[idx].input, step_outputs)["code"][1] # "# Previous failed:"

\* Position of a planning stage on the ladder.
StageRank(p) ==
    CASE p = "classify" -> 0 [] p = "specialized" -> 1 [] p = "fast" -> 2
      [] p = "react" -> 3 [] OTHER -> 4

\* C31 as stated: a stage is left for the next one only after responses that
\* do not parse, so the generic stage is entered only after the second
\* specialized completion and the reasoning stage, when the task is not
\* complex, only after the second generic completion.
C31_AsStated ==
    [][/\ (pc = "specialized" /\ pc' = "fast") => plan_attempt = 1
       /\ (pc = "fast" /\ pc' = "react") => plan_attempt = 1
      ]_vars

\* C31. Escalation ladder: after the classifier, plan goes to the specialized
\* stage (task not complex) or straight to the reasoning stage (complex
\* task); every completion either ends plan or moves strictly up the ladder
\* specialized, generic, reasoning, a stage repeating its call once at most
\* (the specialized and the generic stage, for a second attempt); the
\* specialized and generic stages end plan only with a non-empty parsed plan
\* or a failed call, and go on to the next stage otherwise (responses that
\* do not parse, or an empty array); the reasoning stage makes exactly one
\* call, after which plan has returned what parsed or has failed. plan so
\* ends within six completions.
C31_Ladder ==
    [][(pc \in PlanPcs) =>
          /\ plan_attempt \in {0, 1}
          /\ pc = "classify" =>
                /\ pc' = IF use_react' THEN "react" ELSE "specialized"
                /\ plan_attempt' = 0
          /\ pc = "specialized" =>
                \/ pc' = "specialized" /\ plan_attempt = 0 /\ plan_attempt' = 1
                \/ pc' = "fast" /\ plan_attempt' = 0
                \/ pc' \in {"exec", "replan_fast"} /\ steps' # <<>>
                \/ pc' = "done" /\ task_result'.error = <<"Planning failed:">>
          /\ pc = "fast" =>
                \/ pc' = "fast" /\ plan_attempt = 0 /\ plan_attempt' = 1
                \/ pc' = "react" /\ plan_attempt' = 0
                \/ pc' \in {"exec", "replan_fast"} /\ steps' # <<>>
                \/ pc' = "done" /\ task_result'.error = <<"Planning failed:">>
          /\ pc = "react" =>
                \/ pc' \in {"exec", "replan_fast"}
                \/ pc' = "done" /\ task_result'.error = <<"Planning failed:">>
          /\ pc' \in PlanPcs =>
                (2 * StageRank(pc') + plan_attempt' > 2 * StageRank(pc) + plan_attempt)
      ]_vars

\* The generic stage is at its second completion: the specialized stage gave
\* no plan and the first generic response did not parse.
C31_Witness ==
    /\ pc = "fast"
    /\ plan_attempt = 1
    /\ ~use_react
    /\ steps = <<>>

\* The code matches a caution-list signature.
Cautioned(code) == \E i \in 1..Len(YELLOWLIST) : Contains(code, YELLOWLIST[i])

\* C32. Safety Gate verdict: code matching a deny-list signature is not
\* allowed, whether or not it matches the caution list; code matching only
\* the caution list is allowed and requires confirmation; code matching
\* neither is allowed without confirmation. A step whose code is denied is
\* never dispatched, and a caution-only step that has settled was dispatched
\* to its tool and did not settle as a safety block.
C32_GateVerdict ==
    /\ \A c \in CodeTexts :
          LET v == validate_code(c)
          IN /\ Denied(c) => ~v.allowed
             /\ (Cautioned(c) /\ ~Denied(c)) => (v.allowed /\ v.requires_confirmation)
             /\ (~Cautioned(c) /\ ~Denied(c)) => (v.allowed /\ ~v.requires_confirmation)
    /\ \A k \in 1..Len(steps) :
          LET c == CodeOf(steps[k].input)
          IN /\ Denied(c) => Count(invoked, k) = 0 /\ ~(StepInFlight /\ idx = k)
             /\ (Cautioned(c) /\ ~Denied(c) /\ k <= Len(step_logs)) =>
                   /\ Count(invoked, k) >= 1
                   /\ Prefix(step_logs[k].error, 1) # <<"Safety block:">>

\* A caution-only step followed by a plain step has settled successfully, and
\* a step whose code matches both lists exists among the inputs.
C32_Witness ==
    /\ Len(steps) = 2
    /\ Cautioned(CodeOf(steps[1].input))
    /\ ~Denied(CodeOf(steps[1].input))
    /\ Len(step_logs) >= 1
    /\ step_logs[1].success
    /\ Count(invoked, 1) >= 1
    /\ \E c \in CodeTexts : Cautioned(c) /\ Denied(c)

\* How many of the events are of the kind.
RECURSIVE EventCount(_, _)
EventCount(evs, kind) ==
    IF evs = <<>> THEN 0
    ELSE (IF Head(evs) = kind THEN 1 ELSE 0) + EventCount(Tail(evs), kind)

\* The tool.execute calls counted in f, over all positions.
RECURSIVE TotalCalls(_)
TotalCalls(f) ==
    IF DOMAIN f = {} THEN 0
    ELSE LET p == CHOOSE q \in DOMAIN f : TRUE
         IN f[p] + TotalCalls([q \in DOMAIN f \ {p} |-> f[q]])

\* C33. When run has returned, on whichever path, the log holds one
\* task_start event, first; one task_end event, last; and between them one
\* step event for each tool attempt made.
C33_LifecycleEvents ==
    (pc = "done" /\ task_result.returned) =>
        /\ events # <<>>
        /\ events[1] = "task_start"
        /\ events[Len(events)] = "task_end"
        /\ EventCount(events, "task_start") = 1
        /\ EventCount(events, "task_end") = 1
        /\ EventCount(events, "step") = TotalCalls(invoked)

\* The outputs recorded by the successful records of logs, by step id.
OwnOutputs(logs) ==
    {<<logs[k].step_id, logs[k].output>> : k \in {j \in 1..Len(logs) : logs[j].success}}

\* The output of the last successful record of logs (empty if there is none).
RECURSIVE LastSuccessOutput(_)
LastSuccessOutput(logs) ==
    IF logs = <<>> THEN <<>>
    ELSE IF logs[Len(logs)].success THEN logs[Len(logs)].output
    ELSE LastSuccessOutput(SubSeq(logs, 1, Len(logs) - 1))

\* The run with frame f has seen and produced nothing but its own: its
\* output map is made of its own successful records, the input of the step
\* it awaits is its plan step resolved with them, its records are those of
\* its own plan steps in order, and its TaskResult is built from them.
FrameIsolated(f) ==
    /\ f.step_outputs = OwnOutputs(f.step_logs)
    /\ f.pc \in {"tool_call", "judge_call"} =>
          f.step_input = ResolveInput(f.steps[f.idx].input, OwnOutputs(f.step_logs))
    /\ Len(f.step_logs) <= Len(f.steps)
    /\ \A k \in 1..Len(f.step_logs) :
          /\ f.step_logs[k].step_id = f.steps[k].id
          /\ f.step_logs[k].tool = f.steps[k].tool
    /\ f.pc = "done" =>
          /\ f.task_result.returned
          /\ f.task_result.steps = f.step_logs
          /\ f.task_result.success =
                (/\ Len(f.step_logs) = Len(f.steps)
                 /\ \A k \in 1..Len(f.step_logs) : f.step_logs[k].success)
          /\ f.task_result.output = LastSuccessOutput(f.step_logs)

\* C34. Task isolation under interleaving: with two runs of one instance
\* switching at their awaits, the run that is executing and the run that is
\* suspended each resolve placeholders with the outputs of their own earlier
\* steps only, and the TaskResult of each (success, steps, output) is what
\* its own step records give, as when it runs alone.
C34_TaskIsolation ==
    FrameIsolated(Frame) /\ FrameIsolated(parked)

\* Both runs have returned successfully, the second one while the first was
\* suspended, and their first steps produced different outputs; the second
\* step of the first run was resolved with its own.
C34_Witness ==
    /\ current = 1
    /\ pc = "done"
    /\ parked.pc = "done"
    /\ task_result.success
    /\ parked.task_result.success
    /\ Len(step_logs) = 2
    /\ step_logs[1].output # parked.step_logs[1].output
    /\ step_logs[1].output # <<>>

\* C35. Delegation is sequential and not fail-fast. While an agent's run is
\* awaited for record d_idx, every earlier record has its AgentResult, in
\* order, each earlier record naming a registered agent was dispatched once,
\* this one is dispatched once and no later one has been. When run has
\* returned, agent_results holds one AgentResult per delegation record, in
\* delegation order, whatever failed or named no registered agent, and every
\* record naming a registered agent was dispatched once.
C35_SequentialDelegation ==
    LET Matches(results, n) ==
            /\ Len(results) = n
            /\ \A k \in 1..n :
                  /\ results[k].agent = delegation[k].agent
                  /\ Prefix(results[k].task, Len(delegation[k].task)) = delegation[k].task
        Dispatched(n) ==
            \A k \in 1..Len(delegation) :
                Count(agent_runs, k) =
                    IF k <= n /\ delegation[k].agent \in AgentNames THEN 1 ELSE 0
    IN /\ pc = "agent_call" =>
             /\ d_idx \in 1..Len(delegation)
             /\ delegation[d_idx].agent \in AgentNames
             /\ Matches(agent_results, d_idx - 1)
             /\ Dispatched(d_idx)
       /\ pc = "orch_done" =>
             /\ orch_result.returned
             /\ Matches(orch_result.agent_results, Len(delegation))
             /\ Dispatched(Len(delegation))

\* Two records: the first named no registered agent or its agent failed, and
\* the second was dispatched all the same and succeeded.
C35_Witness ==
    /\ pc = "orch_done"
    /\ Len(delegation) = 2
    /\ Len(orch_result.agent_results) = 2
    /\ ~orch_result.agent_results[1].success
    /\ orch_result.agent_results[2].success
    /\ Count(agent_runs, 2) = 1

\* The awaits one step can take: tool and judged completion, MAX_RETRIES times.
AwaitsPerStep == 2 * MAX_RETRIES

\* An upper bound on the completions and tool calls run still has to await:
\* for the step loop, those of the steps from idx on less those made for the
\* step at idx; for the planning stages, their place on the way to the
\* step loop above the largest value the step loop has.
Remaining ==
    LET loop_top == (AwaitsPerStep + 1) * MAX_PLAN_STEPS
        InStep ==
            CASE pc = "tool_call" -> 2 * attempt - 1
              [] pc = "judge_call" -> 2 * attempt
              [] OTHER -> 0
    IN CASE pc \in {"done", "raised"} -> 0
         [] pc \in {"exec", "tool_call", "judge_call"} ->
                (AwaitsPerStep + 1) * (Len(steps) - idx + 1) - InStep
         [] pc = "replan_react" -> loop_top + 1
         [] pc = "replan_fast" -> loop_top + 3 - plan_attempt
         [] pc = "react" -> loop_top + 4
         [] pc = "fast" -> loop_top + 6 - plan_attempt
         [] pc = "specialized" -> loop_top + 8 - plan_attempt
         [] pc = "classify" -> loop_top + 9
         [] pc = "writing_call" -> loop_top + 10
         [] OTHER -> loop_top + 11

\* C36. run terminates when its calls return: every return of a completion,
\* tool or memory call takes run strictly closer to its return, by a bound
\* that is never negative. In one run each plan position has at most
\* MAX_RETRIES tool invocations and the executed plan at most MAX_PLAN_STEPS
\* positions, so the planned path makes at most MAX_PLAN_STEPS * MAX_RETRIES;
\* the writing fast path makes one, and a run that returned by it made
\* exactly that one.
C36_Terminates ==
    /\ [](/\ Remaining >= 0
          /\ \A p \in DOMAIN invoked :
                /\ p \in 0..Len(steps)
                /\ p <= MAX_PLAN_STEPS
                /\ Count(invoked, p) <= (IF p = 0 THEN 1 ELSE MAX_RETRIES)
          /\ TotalCalls([p \in DOMAIN invoked \ {0} |-> invoked[p]])
                <= MAX_PLAN_STEPS * MAX_RETRIES
          /\ (pc = "done" /\ ~InStepLoop /\ step_logs # <<>>) =>
                /\ TotalCalls(invoked) = 1
                /\ Count(invoked, 0) = 1)
    /\ [][Remaining' < Remaining]_vars

\* Both steps of a plan used the whole retry budget before run returned.
C36_Witness ==
    /\ pc = "done"
    /\ Len(steps) = 2
    /\ Count(invoked, 1) = MAX_RETRIES
    /\ Count(invoked, 2) = MAX_RETRIES
    /\ Remaining = 0

\* C37. When the evaluator raises during an attempt, the attempt is judged by
\* the exit status alone and nothing leaves run: exit status 0 settles the
\* step as successful with quality 0 and the loop goes on to the next step;
\* any other status consumes the attempt, the next one running with the
\* same input (no hint), or, after the last attempt, settles the step as
\* failed with the reason "Evaluator unavailable" and run returns failed.
C37_EvaluatorFault ==
    [][pc = "judge_call" =>
          /\ pc' # "raised"
          /\ result.exit_code = 0 =>
                /\ step_logs' =
                      Append(step_logs,
                             [step_id |-> steps[idx].id, tool |-> steps[idx].tool,
                              output |-> result.output, error |-> <<>>,
                              success |-> TRUE, attempts |-> attempt,
                              quality_score |-> 0])
                /\ idx' = idx + 1
                /\ pc' = IF idx = Len(steps) THEN "done" ELSE "exec"
          /\ (result.exit_code # 0 /\ attempt < MAX_RETRIES) =>
                /\ pc' = "tool_call"
                /\ attempt' = attempt + 1
                /\ step_input' = step_input
                /\ step_logs' = step_logs
                /\ idx' = idx
          /\ (result.exit_code # 0 /\ attempt = MAX_RETRIES) =>
                /\ step_logs' =
                      Append(step_logs,
                             [step_id |-> steps[idx].id, tool |-> steps[idx].tool,
                              output |-> result.output,
                              error |-> <<"Evaluator unavailable">>,
                              success |-> FALSE, attempts |-> MAX_RETRIES,
                              quality_score |-> 0])
                /\ pc' = "done"
                /\ task_result'.returned
                /\ ~task_result'.success
      ]_vars

\* A step failed its first attempt on the exit status alone, and its second
\* attempt, with exit status 0, settled it with quality 0; the loop went on.
C37_Witness ==
    /\ Len(step_logs) >= 1
    /\ step_logs[1].success
    /\ step_logs[1].attempts = 2
    /\ step_logs[1].quality_score = 0
    /\ Count(evaluated, 1) = 2
    /\ idx >= 2

\* C38. In every OrchestratorResult the output is non-empty exactly when
\* success is true; a routing response that decodes to an empty array gives
\* success = false, empty output, empty agent_results and no agent invoked;
\* and nothing has been saved to memory unless run returned with success.
C38_OutputIffSuccess ==
    /\ orch_result.returned =>
          /\ (orch_result.output # <<>>) <=> orch_result.success
          /\ (orch_result.error = <<>> /\ delegation = <<>>) =>
                /\ ~orch_result.success
                /\ orch_result.output = <<>>
                /\ orch_result.agent_results = <<>>
                /\ agent_runs = <<>>
    /\ memory_saves # <<>> => (orch_result.returned /\ orch_result.success)

\* The routing response decoded to the empty array and run has returned.
C38_Witness ==
    /\ pc = "orch_done"
    /\ orch_result.returned
    /\ orch_result.error = <<>>
    /\ delegation = <<>>
    /\ route_calls = 1
    /\ ~orch_result.success

\* run returned by the writing fast path: a step log and no step loop.
FastPathReturned == pc = "done" /\ ~InStepLoop /\ step_logs # <<>>

\* C39. On the writing fast path the tool's outcome is final when it
\* returns. The tool is invoked once and never again; the return of its call
\* either ends run with a TaskResult of one step of text_writer, whose
\* success is that of the exit status and, on a failure, whose error is the
\* tool's, with no evaluation, no plan and no further tool call; or, the
\* tool having raised, takes run to planning with nothing recorded. A run
\* that has not invoked the fast-path tool went to planning from the start.
C39_FastPathFinal ==
    /\ [](/\ Count(invoked, 0) <= 1
          /\ pc = "writing_call" => "text_writer" \in registry
          /\ FastPathReturned =>
                /\ Len(step_logs) = 1
                /\ step_logs[1].tool = "text_writer"
                /\ step_logs[1].attempts = 1
                /\ task_result.returned
                /\ task_result.steps = step_logs
                /\ task_result.success = step_logs[1].success
                /\ task_result.error =
                      (IF step_logs[1].success THEN <<>> ELSE step_logs[1].error)
                /\ steps = <<>>
                /\ evaluated = <<>>
                /\ DOMAIN invoked = {0})
    /\ [][(pc = "writing_call") =>
            \/ /\ pc' = "done"
               /\ FastPathReturned'
            \/ /\ pc' = "classify"
               /\ step_logs' = <<>>
               /\ ~task_result'.returned
               /\ memory_saves' = memory_saves]_vars

\* The fast-path tool returned a result with a non-zero exit status and run
\* returned failed with that one failed step.
C39_Witness ==
    /\ FastPathReturned
    /\ ~task_result.success
    /\ ~step_logs[1].success
    /\ task_result.error # <<>>
    /\ Count(invoked, 0) = 1

====
